---------------------------- MODULE Spec2Model ----------------------------
(***************************************************************************)
(* A model of the WMI access shim (src/wmi_cli/wmi_wrapper.py), the domain *)
(* query modules (src/wmi_cli/modules.py), the CLI (src/wmi_cli/cli.py)    *)
(* and the agent tool layer (src/wmi_tools.py).                            *)
(*                                                                         *)
(* Python values are tagged records, Python strings are sequences of       *)
(* lexemes (so that concatenation is \o and a quote inside a string is a   *)
(* lexeme of its own), and the WMI client library and the operating        *)
(* system behind it are the environment: a backend holding records, which  *)
(* parses and evaluates the WQL text it is handed.                         *)
(***************************************************************************)
EXTENDS Integers, Sequences, FiniteSets, TLC

\* ------------------------------------------------------------------ bounds
NWrappers == 2      \* WMIWrapper instances a behaviour may construct
MaxCtor == 2        \* wmi.WMI() invocations counted per wrapper
MaxCoInit == 2      \* pythoncom.CoInitialize() invocations counted

\* ------------------------------------------------------------ Python values
PyNone == [t |-> "none"]
PyInt(n) == [t |-> "int", n |-> n]
PyStr(s) == [t |-> "str", s |-> s]
PyBool(b) == [t |-> "bool", b |-> b]

\* bool(v): None, 0, "" and False are falsy
Truthy(v) ==
    CASE v.t = "none" -> FALSE
      [] v.t = "int" -> v.n # 0
      [] v.t = "str" -> v.s # <<>>
      [] v.t = "bool" -> v.b
      [] OTHER -> TRUE

\* "no handle": the value of WMIWrapper._connection before the first connect
None == 0

\* The instances a caller constructs, numbered in the order of construction.
Wrappers == 1..NWrappers

\* The instances the agent tool layer holds in its module globals: _wrapper,
\* and the wrappers inside _system_mon and _process_mgr.
ToolW == NWrappers + 1
SysMonW == NWrappers + 2
ProcMgrW == NWrappers + 3
\* The instance a CLI command constructs; a CLI run is a process of its own.
CliW == NWrappers + 4
AllWrappers == 1..(NWrappers + 4)

\* The exception of the WMI client library for a failed round trip (wmi.x_wmi);
\* the repository defines no exception class of its own.
ClientError == "x_wmi"

\* -------------------------------------------------------------------- state
VARIABLES
    com_initialized,   \* WMIWrapper._com_initialized (class attribute)
    coInitCalls,       \* how often pythoncom.CoInitialize() was invoked
    live,              \* the constructed WMIWrapper instances
    connection,        \* WMIWrapper._connection per instance
    ctorCalls,         \* how often wmi.WMI(...) was invoked, per instance
    nextHandle,        \* the identity of the next handle wmi.WMI() returns
    tools_wrapper,     \* wmi_tools._wrapper (with _system_mon, _process_mgr)
    hostUp,            \* whether the target host answers
    backend,           \* the records the instrumentation layer holds
    arg,               \* the input of the function under study
    last,              \* the last call and what it returned or raised
    cli,               \* the CLI command that is running, and how far it is
    environ,           \* os.environ as the agent reads it
    agent,             \* the WMIAgent object: its attributes, or unmade
    chat,              \* the interactive agent CLI: its input and its loop
    invoked,           \* the state-changing WMI methods invoked so far
    threads            \* per thread: how far its WMIWrapper() has got

vars == <<com_initialized, coInitCalls, live, connection, ctorCalls,
          nextHandle, tools_wrapper, hostUp, backend, arg, last, cli, environ,
          agent, chat, invoked, threads>>
\* What only the CLI, the agent and the interactive agent CLI touch.
uiVars == <<cli, environ, agent, chat, invoked, threads>>
procVars == <<com_initialized, coInitCalls, live, connection, ctorCalls,
              nextHandle, tools_wrapper>>

Idle == [op |-> "none"]

\* No CLI command is running, no variable is set in the environment, no
\* WMIAgent has been constructed, no interactive session has been started.
CliIdle == [pc |-> "idle"]
NoEnv == [k \in {} |-> <<>>]
NoAgent == [made |-> FALSE]
NoChat == [pc |-> "none"]
NoThreads == [t \in Wrappers |-> [pc |-> "idle", seen |-> "none", co |-> "none"]]
UiInit ==
    /\ cli = CliIdle
    /\ environ = NoEnv
    /\ agent = NoAgent
    /\ chat = NoChat
    /\ invoked = <<>>
    /\ threads = NoThreads


\* ------------------------------------------------- outcomes of a Python call
Return(v) == [ok |-> TRUE, value |-> v, err |-> "none"]
Raise(e) == [ok |-> FALSE, value |-> <<>>, err |-> e]

\* ------------------------------------------------------------- the backend
\* The classes the modelled namespace holds, and the properties of each.
KnownClasses == {"Win32_Service", "Win32_LogicalDisk", "Win32_ComputerSystem",
                 "Win32_OperatingSystem", "Win32_BIOS", "Win32_Process",
                 "Win32_Processor", "Win32_NetworkAdapterConfiguration",
                 "Win32_PerfFormattedData_PerfProc_Process"}

ClassProps(cls) ==
    CASE cls = "Win32_Service" -> {"Name", "DisplayName", "State"}
      [] cls = "Win32_LogicalDisk" -> {"Name", "DriveType", "Size", "FreeSpace"}
      [] cls = "Win32_ComputerSystem" -> {"Name", "TotalPhysicalMemory"}
      [] cls = "Win32_OperatingSystem" ->
            {"Name", "FreePhysicalMemory", "LastBootUpTime"}
      [] cls = "Win32_PerfFormattedData_PerfProc_Process" ->
            {"Name", "IDProcess", "PercentProcessorTime", "WorkingSet"}
      [] cls = "Win32_BIOS" -> {"Version"}
      [] cls = "Win32_Process" -> {"Name", "ProcessId", "WorkingSetSize"}
      [] cls = "Win32_Processor" -> {"Name"}
      [] cls = "Win32_NetworkAdapterConfiguration" -> {"Description", "IPEnabled"}
      [] OTHER -> {}

ClassRows(cls) ==
    CASE cls = "Win32_Service" -> backend.services
      [] cls = "Win32_LogicalDisk" -> backend.disks
      [] cls = "Win32_ComputerSystem" -> backend.cs
      [] cls = "Win32_OperatingSystem" -> backend.os
      [] cls = "Win32_BIOS" -> backend.bios
      [] cls = "Win32_Process" -> backend.procs
      [] cls = "Win32_Processor" -> backend.cpus
      [] cls = "Win32_NetworkAdapterConfiguration" -> backend.adapters
      [] cls = "Win32_PerfFormattedData_PerfProc_Process" -> backend.perf
      [] OTHER -> <<>>

\* The column lists the repository's queries ask for.
ColumnLists == {"*", "Name, DisplayName, State, StartMode, Status",
                "Name, IDProcess, PercentProcessorTime, WorkingSet"}

\* The value a literal written without quotes denotes.
BareLiterals == {"3", "True"}
BareValue(lex) == IF lex = "3" THEN PyInt(3) ELSE PyBool(TRUE)

\* The first index >= i of a quote in c, or 0.
ClosingQuote(c, i) ==
    LET qs == {k \in i..Len(c) : c[k] = "'"}
    IN  IF qs = {} THEN 0 ELSE CHOOSE k \in qs : \A m \in qs : k <= m

\* The WHERE clause the backend accepts:
\*   cond ::= prop op 'lexemes' | prop op bare | cond OR cond | cond AND cond
\* with op one of = and !=.
RECURSIVE CondOk(_, _)
CondOk(c, props) ==
    /\ Len(c) >= 3
    /\ c[1] \in props
    /\ c[2] \in {"=", "!="}
    /\ LET j == IF c[3] = "'" THEN ClosingQuote(c, 4)
                ELSE IF c[3] \in BareLiterals THEN 3 ELSE 0
           rest == SubSeq(c, j + 1, Len(c))
       IN  /\ j # 0
           /\ \/ rest = <<>>
              \/ /\ rest[1] \in {"OR", "AND"}
                 /\ CondOk(Tail(rest), props)

\* Whether a row satisfies a well-formed WHERE clause; AND binds tighter
\* than OR, acc is the value of the conjunction read so far.
RECURSIVE CondEval(_, _, _)
CondEval(c, row, acc) ==
    LET j == IF c[3] = "'" THEN ClosingQuote(c, 4) ELSE 3
        lit == IF c[3] = "'" THEN PyStr(SubSeq(c, 4, j - 1)) ELSE BareValue(c[3])
        rest == SubSeq(c, j + 1, Len(c))
        term == IF c[2] = "=" THEN row[c[1]] = lit ELSE row[c[1]] # lit
        cur == acc /\ term
    IN  IF rest = <<>> THEN cur
        ELSE IF rest[1] = "OR" THEN cur \/ CondEval(Tail(rest), row, TRUE)
        ELSE CondEval(Tail(rest), row, cur)

CondHolds(c, row) == CondEval(c, row, TRUE)

WqlWellFormed(q) ==
    /\ Len(q) >= 4
    /\ q[1] = "SELECT"
    /\ q[2] \in ColumnLists
    /\ q[3] = "FROM"
    /\ q[4] \in KnownClasses \cup {"meta_class"}
    /\ \/ Len(q) = 4
       \/ /\ Len(q) > 5
          /\ q[5] = "WHERE"
          /\ CondOk(SubSeq(q, 6, Len(q)), ClassProps(q[4]))

\* The subsequence of rows that satisfy p, in order.
RECURSIVE SelectSeq2(_, _)
SelectSeq2(rows, c) ==
    IF rows = <<>> THEN <<>>
    ELSE (IF CondHolds(c, Head(rows)) THEN <<Head(rows)>> ELSE <<>>)
         \o SelectSeq2(Tail(rows), c)

\* One class object per class of the namespace (SELECT * FROM meta_class).
MetaRows == <<[Class |-> "Win32_BIOS"], [Class |-> "Win32_ComputerSystem"],
             [Class |-> "Win32_LogicalDisk"],
             [Class |-> "Win32_NetworkAdapterConfiguration"],
             [Class |-> "Win32_OperatingSystem"],
             [Class |-> "Win32_PerfFormattedData_PerfProc_Process"],
             [Class |-> "Win32_Process"],
             [Class |-> "Win32_Processor"], [Class |-> "Win32_Service"]>>

WqlRows(q) ==
    IF q[4] = "meta_class" THEN MetaRows
    ELSE IF Len(q) = 4 THEN ClassRows(q[4])
    ELSE SelectSeq2(ClassRows(q[4]), SubSeq(q, 6, Len(q)))

\* conn.query(wql) of the client library: one round trip, which fails when
\* the host does not answer or the backend rejects the text.
conn_query(q) ==
    IF ~hostUp \/ ~WqlWellFormed(q) THEN Raise(ClientError)
    ELSE Return(WqlRows(q))

\* wmi.WMI(computer=..., namespace=...): a fresh handle, or the client's error.
wmi_WMI ==
    IF hostUp THEN Return(nextHandle) ELSE Raise(ClientError)


\* ---------------------------------------------------------- WMIWrapper
\* WMIWrapper.get_connection with the handle always created anew.
get_connection_always(w) ==
    LET r == wmi_WMI
    IN  [ctor |-> 1, ok |-> r.ok, conn |-> IF r.ok THEN r.value ELSE None,
         err |-> r.err]

\* WMIWrapper.get_connection: the stored handle, or a new one that is stored.
\* ctor counts the invocations of wmi.WMI; conn is the handle returned.
get_connection(w) ==
    IF connection[w] = None
    THEN LET r == wmi_WMI
         IN  [ctor |-> 1, ok |-> r.ok,
              conn |-> IF r.ok THEN r.value ELSE None, err |-> r.err]
    ELSE [ctor |-> 0, ok |-> TRUE, conn |-> connection[w], err |-> "none"]

\* What get_connection leaves behind in the wrapper and in the counters.
ConnEffects(w, g) ==
    /\ connection' = [connection EXCEPT ![w] = IF g.ok THEN g.conn ELSE @]
    /\ ctorCalls' = [ctorCalls EXCEPT ![w] = @ + g.ctor]
    /\ nextHandle' = IF g.ctor = 1 /\ g.ok THEN nextHandle + 1 ELSE nextHandle

\* WMIWrapper.query with every failure re-raised as a QueryError.
query_wrapping(w, q) ==
    LET g == get_connection(w)
        r == IF g.ok THEN conn_query(q) ELSE Raise(g.err)
    IN  [g |-> g, out |-> IF r.ok THEN r ELSE Raise("QueryError"),
         trips |-> IF g.ok THEN <<r.ok>> ELSE <<>>]

\* WMIWrapper.query that issues the request a second time when the first
\* attempt fails.
query_retrying(w, q) ==
    LET g == get_connection(w)
        r == conn_query(q)
    IN  [g |-> g, out |-> IF g.ok THEN r ELSE Raise(g.err),
         trips |-> IF ~g.ok THEN <<>>
                   ELSE IF r.ok THEN <<TRUE>> ELSE <<FALSE, conn_query(q).ok>>]

\* WMIWrapper.query: list(conn.query(wql_query)); nothing is caught. trips
\* lists the backend requests the call issued, in order, each with whether
\* it was answered.
query(w, q) ==
    LET g == get_connection(w)
    IN  [g |-> g, out |-> IF g.ok THEN conn_query(q) ELSE Raise(g.err),
         trips |-> IF g.ok THEN <<conn_query(q).ok>> ELSE <<>>]

\* A keyword filter of the client library: every named property must equal
\* the given value.
NoFilter == [k \in {} |-> PyNone]

RECURSIVE FilterRows(_, _)
FilterRows(rows, flt) ==
    IF rows = <<>> THEN <<>>
    ELSE (IF \A k \in DOMAIN flt : Head(rows)[k] = flt[k]
          THEN <<Head(rows)>> ELSE <<>>)
         \o FilterRows(Tail(rows), flt)

\* wmi_class(**kwargs) of the client library, for a class of the namespace.
class_fetch(cls, flt) ==
    IF ~hostUp \/ ~(DOMAIN flt \subseteq ClassProps(cls)) THEN Raise(ClientError)
    ELSE Return(FilterRows(ClassRows(cls), flt))

\* WMIWrapper.get_class: getattr(conn, class_name) fails with AttributeError
\* for a name the namespace does not hold.
get_class(w, cls, flt) ==
    LET g == get_connection(w)
    IN  [g |-> g,
         out |-> IF ~g.ok THEN Raise(g.err)
                 ELSE IF cls \notin KnownClasses THEN Raise("AttributeError")
                 ELSE class_fetch(cls, flt),
         trips |-> IF g.ok /\ cls \in KnownClasses
                   THEN <<class_fetch(cls, flt).ok>> ELSE <<>>]

\* The fallback of list_classes.
FallbackClasses ==
    {"Win32_Service", "Win32_Process", "Win32_OperatingSystem",
     "Win32_ComputerSystem", "Win32_LogicalDisk", "Win32_NetworkAdapter",
     "Win32_NetworkAdapterConfiguration", "Win32_Processor", "Win32_BIOS",
     "Win32_PhysicalMemory", "Win32_BaseBoard", "Win32_VideoController",
     "Win32_SoundDevice", "Win32_Printer", "Win32_Battery",
     "Win32_UserAccount", "Win32_Group", "Win32_Share",
     "Win32_StartupCommand", "Win32_USBController", "Win32_DiskDrive",
     "Win32_NTEventlogFile", "Win32_PerfRawData_Tcpip_NetworkInterface"}

\* WMIWrapper.list_classes: the connection is made outside the try block; a
\* failing meta_class query falls back to the fixed list. The result is
\* sorted(set(classes)), here the set.
list_classes(w) ==
    LET g == get_connection(w)
        r == conn_query(<<"SELECT", "*", "FROM", "meta_class">>)
    IN  [g |-> g,
         out |-> IF ~g.ok THEN Raise(g.err)
                 ELSE IF r.ok
                      THEN Return({r.value[i].Class : i \in 1..Len(r.value)})
                      ELSE Return(FallbackClasses),
         trips |-> IF g.ok THEN <<r.ok>> ELSE <<>>]

\* The methods the client library offers on a record of a class.
ClassMethods(cls) ==
    CASE cls = "Win32_Service" -> {"StartService", "StopService"}
      [] cls = "Win32_Process" -> {"Terminate"}
      [] OTHER -> {}

\* WMIWrapper.get_class_properties: the public names of the first instance.
get_class_properties(w, cls) ==
    LET g == get_connection(w)
        r == class_fetch(cls, NoFilter)
    IN  [g |-> g,
         out |-> IF ~g.ok THEN Raise(g.err)
                 ELSE IF cls \notin KnownClasses THEN Raise("AttributeError")
                 ELSE IF ~r.ok THEN r
                 ELSE IF r.value # <<>>
                      THEN Return(ClassProps(cls) \cup ClassMethods(cls))
                      ELSE Return({}),
         trips |-> IF g.ok /\ cls \in KnownClasses THEN <<r.ok>> ELSE <<>>]

\* The COM set-up of WMIWrapper.__init__ from a given value of the class
\* flag: CoInitialize() is invoked unless the flag is set, and the flag is
\* set only when the call returns (coOk); an exception from it is swallowed.
com_setup(flag, coOk) ==
    [coinit |-> IF flag THEN 0 ELSE 1, flag |-> flag \/ coOk]

\* WMIWrapper.__init__ that also opens the connection.
WMIWrapperInit_eager(w, coOk) ==
    LET r == wmi_WMI
        c == com_setup(com_initialized, coOk)
    IN  [conn |-> IF r.ok THEN r.value ELSE None, ctor |-> 1,
         coinit |-> c.coinit, flag |-> c.flag]

\* WMIWrapper.__init__: _connection = None, then the COM set-up.
WMIWrapperInit(w, coOk) ==
    LET c == com_setup(com_initialized, coOk)
    IN  [conn |-> None, ctor |-> 0, coinit |-> c.coinit, flag |-> c.flag]


\* ------------------------------------------------------------ sample data
Spooler == [Name |-> PyStr(<<"Spooler">>), DisplayName |-> PyStr(<<"Print Spooler">>),
            State |-> PyStr(<<"Running">>)]
Fax == [Name |-> PyStr(<<"Fax">>), DisplayName |-> PyStr(<<"Fax">>),
        State |-> PyStr(<<"Stopped">>)]
DiskC == [Name |-> PyStr(<<"C:">>), DriveType |-> PyInt(3),
          Size |-> PyStr(<<"2">>), FreeSpace |-> PyStr(<<"1">>)]
ComputerSystem == [Name |-> PyStr(<<"PC">>), TotalPhysicalMemory |-> PyStr(<<"2">>)]
OperatingSystem == [Name |-> PyStr(<<"OS">>), FreePhysicalMemory |-> PyStr(<<"1">>),
                    LastBootUpTime |-> PyStr(<<"20231106120000", ".", "000000+000">>)]

Bios == [Version |-> PyStr(<<"1.0">>)]
Explorer == [Name |-> PyStr(<<"explorer.exe">>), ProcessId |-> PyInt(4),
             WorkingSetSize |-> PyStr(<<"2">>)]
Cpu == [Name |-> PyStr(<<"CPU">>)]
Adapter == [Description |-> PyStr(<<"Ethernet">>), IPEnabled |-> PyBool(TRUE)]
PerfExplorer == [Name |-> PyStr(<<"explorer">>), IDProcess |-> PyInt(4),
                 PercentProcessorTime |-> PyStr(<<"7">>),
                 WorkingSet |-> PyStr(<<"2">>)]
PerfTotal == [Name |-> PyStr(<<"_Total">>), IDProcess |-> PyInt(0),
              PercentProcessorTime |-> PyStr(<<"9">>),
              WorkingSet |-> PyStr(<<"4">>)]

DefaultBackend ==
    [services |-> <<Spooler, Fax>>, disks |-> <<DiskC>>,
     cs |-> <<ComputerSystem>>, os |-> <<OperatingSystem>>,
     bios |-> <<Bios>>, procs |-> <<Explorer>>, cpus |-> <<Cpu>>,
     adapters |-> <<Adapter>>, perf |-> <<PerfExplorer, PerfTotal>>]

\* WQL texts a caller hands to query: two the backend accepts, one with an
\* unknown verb, one with an unterminated literal.
WqlInputs ==
    {<<"SELECT", "*", "FROM", "Win32_Service">>,
     <<"SELECT", "*", "FROM", "Win32_Service", "WHERE", "State", "=", "'", "Running", "'">>,
     <<"SELEC", "*", "FROM", "Win32_Service">>,
     <<"SELECT", "*", "FROM", "Win32_Service", "WHERE", "State", "=", "'", "Running">>}

ClassInputs == {"Win32_Service", "Win32_LogicalDisk", "Win32_Nothing"}
FilterInputs == {NoFilter, [State |-> PyStr(<<"Running">>)]}

\* The operations of WMIWrapper that need a connection.
ConnOps == {"query", "get_class", "list_classes", "get_class_properties"}

\* ------------------------------------------- the connection life cycle
ProcInit ==
    /\ com_initialized = FALSE
    /\ coInitCalls = 0
    /\ live = {}
    /\ connection = [w \in AllWrappers |-> None]
    /\ ctorCalls = [w \in AllWrappers |-> 0]
    /\ nextHandle = 1
    /\ tools_wrapper = None

Init ==
    /\ ProcInit
    /\ UiInit
    /\ hostUp \in BOOLEAN
    /\ backend = DefaultBackend
    /\ arg = Idle
    /\ last = Idle

\* The effect of a constructor call r on instance w.
Constructed(w, r) ==
    /\ live' = live \cup {w}
    /\ connection' = [connection EXCEPT ![w] = r.conn]
    /\ ctorCalls' = [ctorCalls EXCEPT ![w] = r.ctor]
    /\ nextHandle' = IF r.conn # None THEN nextHandle + 1 ELSE nextHandle
    /\ coInitCalls' = coInitCalls + r.coinit
    /\ com_initialized' = r.flag

\* WMIWrapper(computer, namespace)
Construct(w) ==
    /\ w = Cardinality(live \cap Wrappers) + 1
    /\ coInitCalls < MaxCoInit
    /\ \E coOk \in BOOLEAN :
          /\ Constructed(w, WMIWrapperInit(w, coOk))
          /\ last' = [op |-> "WMIWrapper.__init__", w |-> w]
    /\ UNCHANGED <<tools_wrapper, hostUp, backend, arg, uiVars>>

\* ServiceManager(computer): self.wrapper = WMIWrapper(computer=computer)
ServiceManagerInit(w) ==
    /\ w = Cardinality(live \cap Wrappers) + 1
    /\ coInitCalls < MaxCoInit
    /\ \E coOk \in BOOLEAN :
          /\ Constructed(w, WMIWrapperInit(w, coOk))
          /\ last' = [op |-> "ServiceManager.__init__", w |-> w]
    /\ UNCHANGED <<tools_wrapper, hostUp, backend, arg, uiVars>>

\* What a call of an operation of ConnOps leaves in `last`.
CallRecord(op, w, q, r) ==
    [op |-> op, w |-> w, wql |-> q, up |-> hostUp,
     ctor |-> r.g.ctor, conn |-> r.g.conn,
     ok |-> r.out.ok, err |-> r.out.err, value |-> r.out.value,
     trips |-> r.trips]

Query(w) ==
    /\ w \in live
    /\ ctorCalls[w] < MaxCtor
    /\ \E q \in WqlInputs :
          LET r == query(w, q)
          IN  /\ ConnEffects(w, r.g)
              /\ last' = CallRecord("query", w, q, r)
    /\ UNCHANGED <<com_initialized, coInitCalls, live, tools_wrapper, hostUp,
                   backend, arg, uiVars>>

GetClass(w) ==
    /\ w \in live
    /\ ctorCalls[w] < MaxCtor
    /\ \E cls \in ClassInputs, flt \in FilterInputs :
          LET r == get_class(w, cls, flt)
          IN  /\ ConnEffects(w, r.g)
              /\ last' = CallRecord("get_class", w, <<cls>>, r)
    /\ UNCHANGED <<com_initialized, coInitCalls, live, tools_wrapper, hostUp,
                   backend, arg, uiVars>>

ListClasses(w) ==
    /\ w \in live
    /\ ctorCalls[w] < MaxCtor
    /\ LET r == list_classes(w)
          IN  /\ ConnEffects(w, r.g)
              /\ last' = CallRecord("list_classes", w, <<>>, r)
    /\ UNCHANGED <<com_initialized, coInitCalls, live, tools_wrapper, hostUp,
                   backend, arg, uiVars>>

GetClassProperties(w) ==
    /\ w \in live
    /\ ctorCalls[w] < MaxCtor
    /\ \E cls \in ClassInputs :
          LET r == get_class_properties(w, cls)
          IN  /\ ConnEffects(w, r.g)
              /\ last' = CallRecord("get_class_properties", w, <<cls>>, r)
    /\ UNCHANGED <<com_initialized, coInitCalls, live, tools_wrapper, hostUp,
                   backend, arg, uiVars>>

\* The environment: the target host stops or starts answering.
HostChange ==
    /\ hostUp' = ~hostUp
    /\ UNCHANGED <<procVars, backend, arg, last, uiVars>>

Next ==
    \/ \E w \in Wrappers : Construct(w)
    \/ \E w \in Wrappers : ServiceManagerInit(w)
    \/ \E w \in Wrappers : Query(w)
    \/ \E w \in Wrappers : GetClass(w)
    \/ \E w \in Wrappers : ListClasses(w)
    \/ \E w \in Wrappers : GetClassProperties(w)
    \/ HostChange

Spec == Init /\ [][Next]_vars


\* ------------------------------------------- claims on the connection
\* C1: once get_connection has stored a handle in a wrapper, every later
\* operation on that wrapper returns that same handle, the stored handle
\* never changes and wmi.WMI is not invoked again for it.
C1_HandleCreatedOnce ==
    [][\A w \in Wrappers :
          connection[w] # None =>
             /\ connection'[w] = connection[w]
             /\ ctorCalls'[w] = ctorCalls[w]
             /\ (last'.op \in ConnOps /\ last'.w = w
                    => last'.conn = connection[w])]_vars

\* An operation found a stored handle and returned it without a constructor
\* call.
C1_Witness ==
    /\ last.op \in ConnOps
    /\ last.ctor = 0
    /\ last.conn # None
    /\ last.conn = connection[last.w]
    /\ ctorCalls[last.w] = 1

\* C2: a construction (of a WMIWrapper, or of a module that wraps one)
\* leaves the new instance without a handle and invokes wmi.WMI not at all;
\* wmi.WMI is invoked for an instance only by query, get_class, list_classes
\* or get_class_properties on that instance.
C2_LazyConnection ==
    [][/\ \A w \in live' \ live :
             /\ connection'[w] = None
             /\ ctorCalls'[w] = 0
             /\ nextHandle' = nextHandle
       /\ \A w \in Wrappers :
             ctorCalls'[w] # ctorCalls[w] =>
                /\ w \in live
                /\ last'.op \in ConnOps
                /\ last'.w = w]_vars

\* One instance was constructed (through a module) and has no handle, while
\* the first operation on another instance has just invoked the constructor.
C2_Witness ==
    /\ last.op \in ConnOps
    /\ last.ctor = 1
    /\ ctorCalls[last.w] = 1
    /\ \E w \in live : w # last.w /\ connection[w] = None /\ ctorCalls[w] = 0

\* C3 as claimed: a query on malformed WQL or against an unreachable host
\* fails with an error of the kind QueryError.
C3_FailsWithQueryError ==
    (last.op = "query" /\ (~last.up \/ ~WqlWellFormed(last.wql)))
        => (~last.ok /\ last.err = "QueryError")

\* C3 as amended: such a query fails, and the error that reaches the caller
\* is the client library's own (x_wmi), unchanged.
C3_FailsWithClientError ==
    (last.op = "query" /\ (~last.up \/ ~WqlWellFormed(last.wql)))
        => (~last.ok /\ last.err = ClientError)

\* A query with malformed WQL against a reachable host has failed.
C3_Witness ==
    /\ last.op = "query"
    /\ last.up
    /\ ~WqlWellFormed(last.wql)
    /\ ~last.ok


\* ------------------------------------------------- wmi_object_to_dict
MaxProps == 2     \* length of a property allow-list

\* Attribute names, spelled out: startswith('_') looks at the first character.
NameAttr == <<"N", "a", "m", "e">>
StateAttr == <<"S", "t", "a", "t", "e">>
StopAttr == <<"S", "t", "o", "p">>
OleAttr == <<"_", "o", "l", "e">>
AttrNames == {NameAttr, StateAttr, StopAttr, OleAttr}

\* What reading an attribute of a record does: it yields a value (null
\* included), yields a bound method, raises, or the attribute is missing.
PyCallable == [t |-> "callable"]
AttrKinds ==
    {[k |-> "value", v |-> PyNone], [k |-> "value", v |-> PyStr(<<"x">>)],
     [k |-> "method", v |-> PyCallable], [k |-> "raises", v |-> PyNone],
     [k |-> "missing", v |-> PyNone]}

\* The records: every assignment of a kind to every name.
Objects == [AttrNames -> AttrKinds]

\* getattr(wmi_object, prop)
py_getattr(obj, prop) ==
    IF prop \notin DOMAIN obj THEN Raise("AttributeError")
    ELSE CASE obj[prop].k = "value" -> Return(obj[prop].v)
           [] obj[prop].k = "method" -> Return(PyCallable)
           [] obj[prop].k = "raises" -> Raise("Exception")
           [] OTHER -> Raise("AttributeError")

\* callable(value)
callable(v) == v.t = "callable"

\* dir(wmi_object): the names of the attributes the record has.
dir(obj) == {n \in DOMAIN obj : obj[n].k # "missing"}

\* prop.startswith('_')
startswith_underscore(prop) == Len(prop) > 0 /\ prop[1] = "_"

\* A list holding the elements of a set (the order dir() gives is immaterial
\* to the mapping built from it).
RECURSIVE SetToSeq(_)
SetToSeq(S) ==
    IF S = {} THEN <<>>
    ELSE LET x == CHOOSE x \in S : TRUE IN <<x>> \o SetToSeq(S \ {x})

\* The allow-list argument: absent (None) or a list of names.
NoProps == [given |-> FALSE, list |-> <<>>]
Props(l) == [given |-> TRUE, list |-> l]

\* result[prop] = value
DictPut(d, k, v) == [x \in DOMAIN d \cup {k} |-> IF x = k THEN v ELSE d[x]]
EmptyDict == [x \in {} |-> PyNone]

\* The names wmi_object_to_dict goes through.
PropList(obj, props) ==
    IF props.given THEN props.list
    ELSE SetToSeq({n \in dir(obj) : ~startswith_underscore(n)})

\* The loop of wmi_object_to_dict: a callable value is skipped, a failing
\* read stores None.
RECURSIVE to_dict_loop(_, _, _)
to_dict_loop(obj, props, result) ==
    IF props = <<>> THEN Return(result)
    ELSE LET prop == Head(props)
             r == py_getattr(obj, prop)
         IN  to_dict_loop(obj, Tail(props),
                IF ~r.ok THEN DictPut(result, prop, PyNone)
                ELSE IF callable(r.value) THEN result
                ELSE DictPut(result, prop, r.value))

\* The loop without the callable() test.
RECURSIVE to_dict_loop_keeping(_, _, _)
to_dict_loop_keeping(obj, props, result) ==
    IF props = <<>> THEN Return(result)
    ELSE LET prop == Head(props)
             r == py_getattr(obj, prop)
         IN  to_dict_loop_keeping(obj, Tail(props),
                DictPut(result, prop, IF r.ok THEN r.value ELSE PyNone))

\* The loop without the try/except.
RECURSIVE to_dict_loop_raising(_, _, _)
to_dict_loop_raising(obj, props, result) ==
    IF props = <<>> THEN Return(result)
    ELSE LET prop == Head(props)
             r == py_getattr(obj, prop)
         IN  IF ~r.ok THEN Raise(r.err)
             ELSE to_dict_loop_raising(obj, Tail(props),
                     IF callable(r.value) THEN result
                     ELSE DictPut(result, prop, r.value))

wmi_object_to_dict_keeping(obj, props) ==
    to_dict_loop_keeping(obj, PropList(obj, props), EmptyDict)

wmi_object_to_dict_raising(obj, props) ==
    to_dict_loop_raising(obj, PropList(obj, props), EmptyDict)

\* wmi_object_to_dict(wmi_object, properties=None)
wmi_object_to_dict(obj, props) ==
    to_dict_loop(obj, PropList(obj, props), EmptyDict)

\* Lists of at most n names.
RECURSIVE SeqsUpTo(_, _)
SeqsUpTo(S, n) ==
    IF n = 0 THEN {<<>>}
    ELSE LET shorter == SeqsUpTo(S, n - 1)
         IN  shorter \cup {Append(l, x) : l \in shorter, x \in S}

DictInputs ==
    {[obj |-> o, props |-> pr] :
        o \in Objects,
        pr \in {NoProps} \cup {Props(l) : l \in SeqsUpTo(AttrNames, MaxProps)}}

InitDict ==
    /\ ProcInit
    /\ UiInit
    /\ hostUp = TRUE
    /\ backend = DefaultBackend
    /\ arg \in DictInputs
    /\ last = Idle

ToDict ==
    /\ LET r == wmi_object_to_dict(arg.obj, arg.props)
       IN  last' = [op |-> "wmi_object_to_dict", ok |-> r.ok, err |-> r.err,
                    value |-> r.value]
    /\ UNCHANGED <<procVars, hostUp, backend, arg, uiVars>>

NextDict == ToDict

SpecDict == InitDict /\ [][NextDict]_vars

\* The names the call was asked to convert.
Requested == 
    IF arg.props.given THEN {arg.props.list[i] : i \in 1..Len(arg.props.list)}
    ELSE {n \in AttrNames : arg.obj[n].k # "missing" /\ n[1] # "_"}

\* C4: the mapping wmi_object_to_dict returns holds no callable value, and
\* every requested property whose read yields a non-callable value is a key
\* of it with that value.
C4_NoCallableAllReadable ==
    last.op = "wmi_object_to_dict" =>
        /\ last.ok
        /\ \A k \in DOMAIN last.value : last.value[k] # PyCallable
        /\ \A n \in Requested :
              arg.obj[n].k = "value" =>
                 (n \in DOMAIN last.value /\ last.value[n] = arg.obj[n].v)

\* A record with a method and a readable property was converted, both
\* requested: the property is in the mapping, the method is not.
C4_Witness ==
    /\ last.op = "wmi_object_to_dict"
    /\ arg.obj[StopAttr].k = "method"
    /\ arg.obj[NameAttr] = [k |-> "value", v |-> PyStr(<<"x">>)]
    /\ {StopAttr, NameAttr} \subseteq Requested
    /\ DOMAIN last.value = {NameAttr}

\* C5: wmi_object_to_dict returns for every record; every requested property
\* that is missing or whose read raises is a key with value None, and the
\* other requested properties are converted as usual.
C5_InaccessibleIsNone ==
    last.op = "wmi_object_to_dict" =>
        /\ last.ok
        /\ \A n \in Requested :
              /\ arg.obj[n].k \in {"raises", "missing"} =>
                    (n \in DOMAIN last.value /\ last.value[n] = PyNone)
              /\ arg.obj[n].k = "value" =>
                    (n \in DOMAIN last.value /\ last.value[n] = arg.obj[n].v)
              /\ arg.obj[n].k = "method" => n \notin DOMAIN last.value

\* An allow-list named a property whose read raises before one that reads
\* fine: the first maps to None and the second was still converted.
C5_Witness ==
    /\ last.op = "wmi_object_to_dict"
    /\ arg.props = Props(<<StateAttr, NameAttr>>)
    /\ arg.obj[StateAttr].k = "raises"
    /\ arg.obj[NameAttr] = [k |-> "value", v |-> PyStr(<<"x">>)]
    /\ last.value[StateAttr] = PyNone
    /\ last.value[NameAttr] = PyStr(<<"x">>)


\* ------------------------------------------------------- format_bytes
\* A byte count is a little-endian sequence of base-1024 digits, so that
\* counts beyond 1024^6 fit; the arithmetic below is exact, as Python's is
\* for every count below 2^53.
NDigits == 7      \* base-1024 digits of a byte count
DigitVals == {0, 1, 512, 1023}
Base == 1024

\* for unit in ['B', 'KB', 'MB', 'GB', 'TB'], and the final 'PB'
Ladder == <<"B", "KB", "MB", "GB", "TB", "PB">>

\* bytes_value <= 1024.0 after j divisions by 1024.0
AtMost1024(d, j) ==
    /\ \A i \in (j + 3)..Len(d) : d[i] = 0
    /\ \/ j + 2 > Len(d)
       \/ d[j + 2] = 0
       \/ d[j + 2] = 1 /\ \A i \in 1..(j + 1) : d[i] = 0

\* bytes_value < 1024.0 after j divisions by 1024.0
Below1024(d, j) == \A i \in (j + 2)..Len(d) : d[i] = 0

\* The integer part of the count divided j times by 1024.
RECURSIVE WholePart(_, _)
WholePart(d, j) ==
    IF j + 1 > Len(d) THEN 0
    ELSE d[j + 1] + Base * WholePart(d, j + 1)

\* 100 * (the fraction of the count divided j times), as the quotient c, the
\* leading remainder digit r, and whether anything lies below r.
RECURSIVE CentsAcc(_, _)
CentsAcc(d, i) ==
    IF i = 0 THEN [c |-> 0, r |-> 0, sticky |-> FALSE]
    ELSE LET p == CentsAcc(d, i - 1)
             t == 100 * d[i] + p.c
         IN  [c |-> t \div Base, r |-> t % Base,
              sticky |-> p.sticky \/ p.r # 0]

\* f"{bytes_value:.2f} {unit}": two decimals, rounded half to even.
Fmt2(d, j, unit) ==
    LET a == CentsAcc(d, j)
        up == a.r > 512 \/ (a.r = 512 /\ (a.sticky \/ a.c % 2 = 1))
        cents == IF up THEN a.c + 1 ELSE a.c
    IN  [whole |-> WholePart(d, j) + cents \div 100, cents |-> cents % 100,
         unit |-> unit]

\* The loop of format_bytes from the unit of index k on (k - 1 divisions
\* done); after 'TB' the value is divided once more and shown in 'PB'.
RECURSIVE format_loop(_, _)
format_loop(d, k) ==
    IF k > 5 THEN Fmt2(d, 5, Ladder[6])
    ELSE IF Below1024(d, k - 1) THEN Fmt2(d, k - 1, Ladder[k])
    ELSE format_loop(d, k + 1)

format_bytes(d) == format_loop(d, 1)

InitFmt ==
    /\ ProcInit
    /\ UiInit
    /\ hostUp = TRUE
    /\ backend = DefaultBackend
    /\ arg \in [1..NDigits -> DigitVals]
    /\ last = Idle

FormatBytes ==
    /\ last' = [op |-> "format_bytes", value |-> format_bytes(arg)]
    /\ UNCHANGED <<procVars, hostUp, backend, arg, uiVars>>

NextFmt == FormatBytes

SpecFmt == InitFmt /\ [][NextFmt]_vars

\* How many whole divisions by 1024 bring the count under 1024.
DivisionsNeeded(d) ==
    LET nz == {i \in 1..Len(d) : d[i] # 0}
    IN  IF nz = {} THEN 0 ELSE (CHOOSE i \in nz : \A m \in nz : m <= i) - 1

UnitIndex(u) == (CHOOSE i \in 1..6 : Ladder[i] = u) - 1

\* The digits of 1536 and of 0.
Is1536 == arg[1] = 512 /\ arg[2] = 1 /\ \A i \in 3..NDigits : arg[i] = 0
Is0 == \A i \in 1..NDigits : arg[i] = 0

\* C6 as claimed: for every byte count the unit index is the number of whole
\* divisions by 1024 that bring the value under 1024, and the displayed
\* mantissa is below 1024.
C6_SmallestUnitAlways ==
    last.op = "format_bytes" =>
        /\ UnitIndex(last.value.unit) = DivisionsNeeded(arg)
        /\ last.value.whole < 1024

\* C6 as amended: below 1024^6 the unit index is that number of divisions
\* and the mantissa before rounding is below 1024 (its two-decimal display
\* is at most 1024.00); from 1024^6 on the unit is PB and the mantissa is
\* 1024 or more. 1536 gives 1.50 KB and 0 gives 0.00 B.
C6_SmallestUnitBelowLadderEnd ==
    last.op = "format_bytes" =>
        /\ DivisionsNeeded(arg) <= 5 =>
              /\ UnitIndex(last.value.unit) = DivisionsNeeded(arg)
              /\ WholePart(arg, DivisionsNeeded(arg)) < 1024
              /\ last.value.whole * 100 + last.value.cents <= 102400
        /\ DivisionsNeeded(arg) > 5 =>
              /\ last.value.unit = "PB"
              /\ last.value.whole >= 1024
        /\ Is1536 => last.value = [whole |-> 1, cents |-> 50, unit |-> "KB"]
        /\ Is0 => last.value = [whole |-> 0, cents |-> 0, unit |-> "B"]

\* 1024 bytes were formatted: one division, 1.00 KB.
C6_Witness ==
    /\ last.op = "format_bytes"
    /\ arg[1] = 0 /\ arg[2] = 1 /\ \A i \in 3..NDigits : arg[i] = 0
    /\ last.value = [whole |-> 1, cents |-> 0, unit |-> "KB"]


\* ----------------------------------------------- the agent tool globals
\* _init_wmi(): when _wrapper is None, WMIWrapper(), SystemMonitor() and
\* ProcessManager() are constructed in this order, each running the COM
\* set-up; cs[i] tells whether the i-th CoInitialize() would return.
init_wmi(cs) ==
    IF tools_wrapper # None
    THEN [made |-> {}, wrapper |-> tools_wrapper, coinit |-> 0,
          flag |-> com_initialized]
    ELSE LET c1 == com_setup(com_initialized, cs[1])
             c2 == com_setup(c1.flag, cs[2])
             c3 == com_setup(c2.flag, cs[3])
         IN  [made |-> {ToolW, SysMonW, ProcMgrW}, wrapper |-> ToolW,
              coinit |-> c1.coinit + c2.coinit + c3.coinit, flag |-> c3.flag]

\* What _init_wmi leaves in the process.
InitWmiEffects(i) ==
    /\ live' = live \cup i.made
    /\ tools_wrapper' = i.wrapper
    /\ coInitCalls' = coInitCalls + i.coinit
    /\ com_initialized' = i.flag

CoInitOutcomes == [1..3 -> BOOLEAN]

\* ------------------------------------------------- used percentages
MaxDisks == 1     \* disks the backend holds

\* int(value) for an int, or for a str of decimal digits (the client library
\* hands 64-bit counters over as such strings).
DecDigits == <<"0", "1", "2", "3", "4", "5", "6", "7", "8", "9">>
DigitOf(ch) == (CHOOSE i \in 1..10 : DecDigits[i] = ch) - 1

RECURSIVE ParseDec(_)
ParseDec(str) ==
    IF str = <<>> THEN 0
    ELSE 10 * ParseDec(SubSeq(str, 1, Len(str) - 1)) + DigitOf(str[Len(str)])

py_int(v) == IF v.t = "int" THEN v.n ELSE ParseDec(v.s)

\* (used / total) * 100; Python raises ZeroDivisionError for total = 0. The
\* sizes of the model make the quotient a whole number.
percentage(used, total) ==
    IF total = 0 THEN Raise("ZeroDivisionError")
    ELSE Return((used * 100) \div total)

\* ((size - free) / size * 100) if size > 0 else 0
guarded_percentage(used, total) ==
    IF total > 0 THEN percentage(used, total) ELSE Return(0)

\* The loop of SystemMonitor.get_disk_usage: a disk with a falsy Size is
\* left out, the percentage of the others is computed without a guard.
RECURSIVE disk_usage_loop(_, _)
disk_usage_loop(disks, result) ==
    IF disks = <<>> THEN Return(result)
    ELSE LET disk == Head(disks)
         IN  IF ~Truthy(disk.Size)
             THEN disk_usage_loop(Tail(disks), result)
             ELSE LET size == py_int(disk.Size)
                      free == IF Truthy(disk.FreeSpace)
                              THEN py_int(disk.FreeSpace) ELSE 0
                      used == size - free
                      pct == percentage(used, size)
                  IN  IF ~pct.ok THEN Raise(pct.err)
                      ELSE disk_usage_loop(Tail(disks),
                              Append(result,
                                 [device_id |-> disk.Name, size_bytes |-> size,
                                  used_bytes |-> used, free_bytes |-> free,
                                  used_percentage |-> pct.value]))

\* SystemMonitor.get_disk_usage on the monitor whose wrapper is w.
get_disk_usage(w) ==
    LET r == get_class(w, "Win32_LogicalDisk", [DriveType |-> PyInt(3)])
    IN  [g |-> r.g,
         out |-> IF r.out.ok THEN disk_usage_loop(r.out.value, <<>>)
                 ELSE r.out,
         trips |-> r.trips]

\* SystemMonitor.get_memory_info: results[0] of each class, then the
\* percentage without a guard. A missing record makes cs (or os_info) None,
\* whose attribute read raises AttributeError. The second fetch finds the
\* handle the first one stored (the host's state is that of the whole call).
get_memory_info(w) ==
    LET c == get_class(w, "Win32_ComputerSystem", NoFilter)
        o == get_class(w, "Win32_OperatingSystem", NoFilter)
    IN  [g |-> c.g,
         out |-> IF ~c.out.ok THEN c.out
                 ELSE IF ~o.out.ok THEN o.out
                 ELSE IF c.out.value = <<>> \/ o.out.value = <<>>
                      THEN Raise("AttributeError")
                 ELSE IF c.out.value[1].TotalPhysicalMemory = PyNone
                         \/ o.out.value[1].FreePhysicalMemory = PyNone
                      THEN Raise("TypeError")
                 ELSE LET total == py_int(c.out.value[1].TotalPhysicalMemory)
                          free == py_int(o.out.value[1].FreePhysicalMemory) * 1024
                          used == total - free
                          pct == percentage(used, total)
                      IN  IF ~pct.ok THEN Raise(pct.err)
                          ELSE Return([total_bytes |-> total,
                                       used_bytes |-> used,
                                       free_bytes |-> free,
                                       used_percentage |-> pct.value]),
         trips |-> c.trips \o (IF c.out.ok THEN o.trips ELSE <<>>)]

\* The loop of the get_disk_info tool: a disk with a falsy Size is left out,
\* the percentage of the others is guarded.
RECURSIVE disk_info_loop(_, _)
disk_info_loop(disks, result) ==
    IF disks = <<>> THEN Return(result)
    ELSE LET disk == Head(disks)
         IN  IF ~Truthy(disk.Size)
             THEN disk_info_loop(Tail(disks), result)
             ELSE LET free_space == IF Truthy(disk.FreeSpace)
                                    THEN py_int(disk.FreeSpace) ELSE 0
                      total_space == py_int(disk.Size)
                      pct == guarded_percentage(total_space - free_space,
                                                total_space)
                  IN  IF ~pct.ok THEN Raise(pct.err)
                      ELSE disk_info_loop(Tail(disks),
                              Append(result,
                                 [name |-> disk.Name, size |-> total_space,
                                  free |-> free_space, used_pct |-> pct.value]))

DiskQuery == <<"SELECT", "*", "FROM", "Win32_LogicalDisk", "WHERE",
               "DriveType", "=", "3">>

\* What a tool function returns: a text block built from entries, or the
\* text of the exception it caught.
ToolText(head, entries) ==
    [kind |-> "text", head |-> head, entries |-> entries, err |-> "none"]
\* An except clause that returns the exception's text alone.
ToolError_bare(head, e) ==
    [kind |-> "error", head |-> "", entries |-> <<>>, err |-> e]
ToolError(head, e) ==
    [kind |-> "error", head |-> head, entries |-> <<>>, err |-> e]

\* The get_disk_info tool after _init_wmi(): every exception is caught.
get_disk_info ==
    LET r == query(ToolW, DiskQuery)
        l == IF r.out.ok THEN disk_info_loop(r.out.value, <<>>) ELSE r.out
    IN  [g |-> r.g,
         out |-> IF ~l.ok THEN ToolError("Error getting disk info: ", l.err)
                 ELSE IF l.value = <<>>
                      THEN ToolText("No disk information available", <<>>)
                      ELSE ToolText("Disk Drives:", l.value),
         trips |-> r.trips]

\* The table rows of the CLI disks command: the percentage is guarded and
\* shown as N/A (here -1) for a size of 0.
RECURSIVE cli_disk_rows(_, _)
cli_disk_rows(disks, result) ==
    IF disks = <<>> THEN Return(result)
    ELSE LET disk == Head(disks)
             size == IF Truthy(disk.Size) THEN py_int(disk.Size) ELSE 0
             free == IF Truthy(disk.FreeSpace) THEN py_int(disk.FreeSpace)
                     ELSE 0
             pct == guarded_percentage(size - free, size)
         IN  IF ~pct.ok THEN Raise(pct.err)
             ELSE cli_disk_rows(Tail(disks),
                     Append(result,
                        [name |-> disk.Name, size |-> size, free |-> free,
                         used_pct |-> pct.value,
                         shown |-> IF size > 0 THEN pct.value ELSE -1]))

\* The JSON rows of the CLI disks command: wmi_object_to_dict with an
\* allow-list, which for a backend record (every property readable) is the
\* record restricted to the list.
RECURSIVE cli_disk_json(_)
cli_disk_json(disks) ==
    IF disks = <<>> THEN <<>>
    ELSE <<[Size |-> Head(disks).Size, FreeSpace |-> Head(disks).FreeSpace,
            DriveType |-> Head(disks).DriveType]>>
         \o cli_disk_json(Tail(disks))

\* The CLI disks command, a process of its own: a new WMIWrapper, the fetch,
\* the rendering; any exception ends it with exit status 1.
cli_disks(flt, fmt) ==
    LET r == get_class(CliW, "Win32_LogicalDisk", flt)
        rows == IF ~r.out.ok THEN r.out
                ELSE IF r.out.value = <<>> THEN Return(<<>>)
                ELSE IF fmt = "json" THEN Return(cli_disk_json(r.out.value))
                ELSE cli_disk_rows(r.out.value, <<>>)
    IN  [exit |-> IF rows.ok THEN 0 ELSE 1, err |-> rows.err,
         entries |-> rows.value, fmt |-> fmt, ctor |-> r.g.ctor,
         trips |-> r.trips]


\* Disk and memory records of the backend: a Size can be missing (None), the
\* string "0", the integer 0 or positive.
DiskSizes == {PyNone, PyStr(<<"0">>), PyInt(0), PyStr(<<"4">>)}
DiskFrees == {PyNone, PyStr(<<"1">>)}
DiskRecords ==
    {[Name |-> PyStr(<<"C:">>), DriveType |-> PyInt(3), Size |-> sz,
      FreeSpace |-> fr] : sz \in DiskSizes, fr \in DiskFrees}
    \cup {[Name |-> PyStr(<<"E:">>), DriveType |-> PyInt(2),
           Size |-> PyStr(<<"0">>), FreeSpace |-> PyNone]}
MemTotals == {PyStr(<<"0">>), PyStr(<<"4", "0", "9", "6">>)}
MemFrees == {PyStr(<<"0">>), PyStr(<<"1">>)}

PctBackends ==
    {[DefaultBackend EXCEPT
        !.disks = ds,
        !.cs = <<[Name |-> PyStr(<<"PC">>), TotalPhysicalMemory |-> mt]>>,
        !.os = <<[OperatingSystem EXCEPT !.FreePhysicalMemory = mf]>>] :
        ds \in SeqsUpTo(DiskRecords, MaxDisks), mt \in MemTotals,
        mf \in MemFrees}

InitPct ==
    /\ ProcInit
    /\ UiInit
    /\ hostUp \in BOOLEAN
    /\ backend \in PctBackends
    /\ arg = Idle
    /\ last = Idle

\* SystemMonitor(computer): self.wrapper = WMIWrapper(computer=computer)
SystemMonitorInit(w) ==
    /\ w = Cardinality(live \cap Wrappers) + 1
    /\ coInitCalls < MaxCoInit
    /\ \E coOk \in BOOLEAN :
          /\ Constructed(w, WMIWrapperInit(w, coOk))
          /\ last' = [op |-> "SystemMonitor.__init__", w |-> w]
    /\ UNCHANGED <<tools_wrapper, hostUp, backend, arg, uiVars>>

\* What a call of a module method leaves in `last`.
ModuleRecord(op, w, r) ==
    [op |-> op, w |-> w, up |-> hostUp, ctor |-> r.g.ctor, conn |-> r.g.conn,
     ok |-> r.out.ok, err |-> r.out.err, value |-> r.out.value,
     trips |-> r.trips]

\* The wrappers that sit inside a SystemMonitor.
MonitorWrappers == (live \cap Wrappers) \cup (live \cap {SysMonW})

GetDiskUsage(w) ==
    /\ w \in MonitorWrappers
    /\ ctorCalls[w] < MaxCtor
    /\ LET r == get_disk_usage(w)
       IN  /\ ConnEffects(w, r.g)
           /\ last' = ModuleRecord("get_disk_usage", w, r)
    /\ UNCHANGED <<com_initialized, coInitCalls, live, tools_wrapper, hostUp,
                   backend, arg, uiVars>>

GetMemoryInfo(w) ==
    /\ w \in MonitorWrappers
    /\ ctorCalls[w] < MaxCtor
    /\ LET r == get_memory_info(w)
       IN  /\ ConnEffects(w, r.g)
           /\ last' = ModuleRecord("get_memory_info", w, r)
    /\ UNCHANGED <<com_initialized, coInitCalls, live, tools_wrapper, hostUp,
                   backend, arg, uiVars>>

\* What a call of a tool function leaves in `last`.
ToolRecord(op, a, r) ==
    [op |-> op, w |-> ToolW, input |-> a, up |-> hostUp, ctor |-> r.g.ctor,
     conn |-> r.g.conn, kind |-> r.out.kind, head |-> r.out.head,
     entries |-> r.out.entries, err |-> r.out.err, trips |-> r.trips]

\* The get_disk_info tool: _init_wmi(), the query, the text.
ToolGetDiskInfo ==
    /\ ctorCalls[ToolW] < MaxCtor
    /\ coInitCalls < MaxCoInit
    /\ \E cs \in CoInitOutcomes :
          LET r == get_disk_info
          IN  /\ InitWmiEffects(init_wmi(cs))
              /\ ConnEffects(ToolW, r.g)
              /\ last' = ToolRecord("get_disk_info", <<>>, r)
    /\ UNCHANGED <<hostUp, backend, arg, uiVars>>

\* The CLI disks command with its --drive-type and --output-format options.
CliDisks ==
    /\ \E flt \in {NoFilter, [DriveType |-> PyInt(3)]}, fmt \in {"table", "json"} :
          LET r == cli_disks(flt, fmt)
          IN  last' = [op |-> "cli.disks", exit |-> r.exit, err |-> r.err,
                       entries |-> r.entries, fmt |-> fmt, up |-> hostUp,
                       ctor |-> r.ctor, trips |-> r.trips]
    /\ UNCHANGED <<procVars, hostUp, backend, arg, uiVars>>

\* One monitor a caller constructs, the one of the tool layer, the tool and
\* the CLI command; the host answers, or does not, for the whole behaviour.
NextPct ==
    \/ SystemMonitorInit(1)
    \/ \E w \in {1, SysMonW} : GetDiskUsage(w)
    \/ \E w \in {1, SysMonW} : GetMemoryInfo(w)
    \/ ToolGetDiskInfo
    \/ CliDisks

SpecPct == InitPct /\ [][NextPct]_vars

\* C7 as claimed: in the CLI disks command, the get_disk_info tool and
\* SystemMonitor.get_disk_usage, a disk whose total size is 0 or missing
\* raises no division-by-zero fault, and a percentage reported for a size of
\* 0 is 0.
C7_ZeroSizeGivesZero ==
    /\ last.op \in {"cli.disks", "get_disk_info", "get_disk_usage"} =>
          last.err # "ZeroDivisionError"
    /\ last.op \in {"cli.disks", "get_disk_info"} /\ last.err = "none" =>
          \A i \in 1..Len(last.entries) :
              ("size" \in DOMAIN last.entries[i] /\ last.entries[i].size = 0)
                 => last.entries[i].used_pct = 0
    /\ last.op = "get_disk_usage" /\ last.ok =>
          \A i \in 1..Len(last.value) :
              last.value[i].size_bytes = 0 => last.value[i].used_percentage = 0

\* C8 as claimed: when the total physical memory is 0 and the host answers,
\* get_memory_info returns a result whose used_percentage is 0.
C8_ZeroMemoryGivesZero ==
    (/\ last.op = "get_memory_info"
     /\ last.up
     /\ py_int(backend.cs[1].TotalPhysicalMemory) = 0)
        => (last.ok /\ last.value.used_percentage = 0)


\* ------------------------------------------------- the service tools
MaxServices == 2  \* service records the backend holds
MaxStrLen == 2    \* lexemes of a string a caller passes
ListLimit == 20   \* services[:20]

Min(a, b) == IF a < b THEN a ELSE b

\* The rows of the text a service tool returns.
RECURSIVE service_lines(_)
service_lines(svcs) ==
    IF svcs = <<>> THEN <<>>
    ELSE <<[name |-> Head(svcs).Name, state |-> Head(svcs).State,
            display |-> Head(svcs).DisplayName]>>
         \o service_lines(Tail(svcs))

ServiceColumns == "Name, DisplayName, State, StartMode, Status"

\* f"SELECT ... FROM Win32_Service WHERE State = '{state}'", or the query
\* without WHERE when state is falsy (None or the empty string).
list_services_query(state) ==
    IF Truthy(state)
    THEN <<"SELECT", ServiceColumns, "FROM", "Win32_Service", "WHERE",
           "State", "=", "'">> \o state.s \o <<"'">>
    ELSE <<"SELECT", ServiceColumns, "FROM", "Win32_Service">>

\* The list_services tool after _init_wmi(): the count of all services
\* found, the first 20 of them, and how many were left out.
list_services(state) ==
    LET r == query(ToolW, list_services_query(state))
    IN  [g |-> r.g,
         out |-> IF ~r.out.ok
                 THEN ToolError("Error listing services: ", r.out.err)
                 ELSE LET services == r.out.value
                          shown == SubSeq(services, 1,
                                          Min(ListLimit, Len(services)))
                      IN  ToolText([count |-> Len(services),
                                    more |-> Len(services) - Len(shown)],
                                   service_lines(shown)),
         trips |-> r.trips]

\* f"SELECT ... FROM Win32_Service WHERE Name = '{service_name}'"
service_status_query(service_name) ==
    <<"SELECT", ServiceColumns, "FROM", "Win32_Service", "WHERE",
      "Name", "=", "'">> \o service_name.s \o <<"'">>

\* The get_service_status tool after _init_wmi(): services[0] when the query
\* found something, a "not found" text otherwise.
get_service_status(service_name) ==
    LET r == query(ToolW, service_status_query(service_name))
    IN  [g |-> r.g,
         out |-> IF ~r.out.ok
                 THEN ToolError("Error getting service status: ", r.out.err)
                 ELSE IF r.out.value # <<>>
                      THEN ToolText("Service: ",
                                    service_lines(<<r.out.value[1]>>))
                      ELSE ToolText("Service not found", <<>>),
         trips |-> r.trips]

\* Service records: Name is the key of Win32_Service, so names differ.
ServiceNames == {"Spooler", "Fax"}
ServiceStates == {"Running", "Stopped"}
ServiceRecords ==
    {[Name |-> PyStr(<<n>>), DisplayName |-> PyStr(<<n, " service">>),
      State |-> PyStr(<<st>>)] : n \in ServiceNames, st \in ServiceStates}
ServiceLists ==
    {l \in SeqsUpTo(ServiceRecords, MaxServices) :
        \A i, j \in 1..Len(l) : i # j => l[i].Name # l[j].Name}

\* The strings a caller passes: short ones over names, states and the quote
\* character, and two that carry a quote followed by more WQL.
InputLexemes == {"Spooler", "Running", "'"}
QuotedName == <<"Fax", "'", "OR", "Name", "=", "'", "Spooler">>
QuotedState == <<"Running", "'", "OR", "State", "=", "'", "Stopped">>
StringInputs ==
    {PyStr(l) : l \in SeqsUpTo(InputLexemes, MaxStrLen) \cup {QuotedName, QuotedState}}

InitSvc ==
    /\ ProcInit
    /\ UiInit
    /\ hostUp \in BOOLEAN
    /\ backend \in {[DefaultBackend EXCEPT !.services = l] : l \in ServiceLists}
    /\ arg = Idle
    /\ last = Idle

\* The list_services tool: _init_wmi(), the query, the text.
ToolListServices ==
    /\ ctorCalls[ToolW] < MaxCtor
    /\ coInitCalls < MaxCoInit
    /\ \E cs \in CoInitOutcomes, state \in {PyNone} \cup StringInputs :
          LET r == list_services(state)
          IN  /\ InitWmiEffects(init_wmi(cs))
              /\ ConnEffects(ToolW, r.g)
              /\ last' = ToolRecord("list_services", state, r)
    /\ UNCHANGED <<hostUp, backend, arg, uiVars>>

\* The get_service_status tool: _init_wmi(), the query, the text.
ToolGetServiceStatus ==
    /\ ctorCalls[ToolW] < MaxCtor
    /\ coInitCalls < MaxCoInit
    /\ \E cs \in CoInitOutcomes, service_name \in StringInputs :
          LET r == get_service_status(service_name)
          IN  /\ InitWmiEffects(init_wmi(cs))
              /\ ConnEffects(ToolW, r.g)
              /\ last' = ToolRecord("get_service_status", service_name, r)
    /\ UNCHANGED <<hostUp, backend, arg, uiVars>>

NextSvc ==
    \/ ToolListServices
    \/ ToolGetServiceStatus

SpecSvc == InitSvc /\ [][NextSvc]_vars

\* The lines a tool's text would have for the backend's services selected by
\* a predicate on the record, in backend order.
RECURSIVE LinesWhere(_, _, _)
LinesWhere(svcs, prop, v) ==
    IF svcs = <<>> THEN <<>>
    ELSE (IF Head(svcs)[prop] = v THEN service_lines(<<Head(svcs)>>) ELSE <<>>)
         \o LinesWhere(Tail(svcs), prop, v)

\* C9 as claimed: for any services of the backend and any (non-empty) state
\* value s, a list_services(state=s) that answers with a listing reports
\* exactly the services whose State equals s, each once.
C9_ListsExactlyMatchingState ==
    (last.op = "list_services" /\ Truthy(last.input) /\ last.kind = "text")
        => last.entries = LinesWhere(backend.services, "State", last.input)

\* C10 as claimed: for any service_name, one with a quote character
\* included, get_service_status reports a service only if that service's
\* Name equals service_name.
C10_ReportsOnlyNamedService ==
    (last.op = "get_service_status" /\ last.entries # <<>>)
        => last.entries[1].name = last.input


\* ------------------------------------------- the state-changing methods
MaxInvoked == 2   \* method invocations a behaviour may hold

\* What an invocation of StartService, StopService or Terminate comes to:
\* it is carried out (return code 0), refused (another return code), or the
\* client raises.
MethodResults == {"done", "refused", "raised"}

\* One invocation: the method, the Name or ProcessId of the record it was
\* invoked on, and what came of it.
Invocation(method, target, res) ==
    [method |-> method, target |-> target, res |-> res]

\* The backend after one invocation that was carried out: the service is
\* stopped or running, the process is gone.
RECURSIVE WithState(_, _, _)
WithState(svcs, name, state) ==
    IF svcs = <<>> THEN <<>>
    ELSE <<IF Head(svcs).Name = name
           THEN [Head(svcs) EXCEPT !.State = PyStr(<<state>>)]
           ELSE Head(svcs)>> \o WithState(Tail(svcs), name, state)

RECURSIVE Without(_, _)
Without(procs, pid) ==
    IF procs = <<>> THEN <<>>
    ELSE (IF Head(procs).ProcessId = pid THEN <<>> ELSE <<Head(procs)>>)
         \o Without(Tail(procs), pid)

apply_method(b, c) ==
    IF c.res # "done" THEN b
    ELSE CASE c.method = "StopService" ->
                [b EXCEPT !.services = WithState(@, c.target, "Stopped")]
           [] c.method = "StartService" ->
                [b EXCEPT !.services = WithState(@, c.target, "Running")]
           [] c.method = "Terminate" ->
                [b EXCEPT !.procs = Without(@, c.target)]

RECURSIVE apply_methods(_, _)
apply_methods(b, calls) ==
    IF calls = <<>> THEN b
    ELSE apply_methods(apply_method(b, Head(calls)), Tail(calls))

\* What the invocations of a call leave behind: the log of the methods
\* invoked and their targets, and the backend they acted on.
Invoke(calls) ==
    /\ invoked' = invoked \o [i \in 1..Len(calls) |->
                                [method |-> calls[i].method,
                                 target |-> calls[i].target]]
    /\ backend' = apply_methods(backend, calls)

\* A tool layer whose list_processes terminates the first process it shows.
surface_methods_terminating(layer, name) ==
    IF layer = "tool" /\ name = "list_processes" /\ backend.procs # <<>>
    THEN <<Invocation("Terminate", backend.procs[1].ProcessId, "done")>>
    ELSE <<>>

\* The state-changing methods a tool call or a CLI command invokes: none.
\* wmi_tools.py and cli.py fetch records through query, get_class,
\* list_classes and get_class_properties and read their attributes; neither
\* calls StartService, StopService or Terminate, nor a module method that
\* does.
surface_methods(layer, name) == <<>>

\* ------------------------------------------------------ the CLI commands
\* Every command of cli.py has the shape
\*     try: wrapper = WMIWrapper(...); <wrapper calls>; <rendering>
\*     except Exception as e: console.print(...); raise typer.Exit(1)
\* and is a process of its own, with one wrapper (CliW) whose handle is a
\* reference of that process. A command runs in two steps with the
\* environment free to change in between: the construction of the wrapper
\* with the get_connection() of its first wrapper call, and then the rest,
\* which finds the handle stored.

\* The exit status that always reports success.
cli_outcome_zero(body) ==
    [exit |-> 0, err |-> body.err, value |-> body.value]

\* The exit status of a command whose body returned or raised.
cli_outcome(body) ==
    [exit |-> IF body.ok THEN 0 ELSE 1, err |-> body.err, value |-> body.value]

\* results[0] if results else None
first_or_none(rows) == IF rows = <<>> THEN PyNone ELSE rows[1]

\* query: wrapper.query(wql); the rendering of the rows has its reads inside
\* try blocks of its own.
cli_query(wql, fmt) ==
    LET r == query(CliW, wql)
    IN  [out |-> cli_outcome(r.out), trips |-> r.trips]

\* list-classes: wrapper.list_classes(), sorted and printed (the filter text
\* only narrows what is printed).
cli_list_classes ==
    LET r == list_classes(CliW)
    IN  [out |-> cli_outcome(r.out), trips |-> r.trips]

\* class-info: the properties, and when there are any, a sample instance.
cli_class_info(cls) ==
    LET p == get_class_properties(CliW, cls)
        i == get_class(CliW, cls, NoFilter)
        body == IF ~p.out.ok THEN p.out
                ELSE IF p.out.value = {} THEN Return(<<>>)
                ELSE IF ~i.out.ok THEN i.out
                ELSE Return(<<p.out.value>>)
    IN  [out |-> cli_outcome(body),
         trips |-> p.trips \o (IF p.out.ok /\ p.out.value # {} THEN i.trips
                               ELSE <<>>)]

\* filters[...] = option, for the options that are truthy
OptionFilter(opts) ==
    LET given == {k \in DOMAIN opts : Truthy(opts[k])}
    IN  [k \in given |-> opts[k]]

\* services and processes: get_class with the filters, a table or JSON.
cli_listing(cls, opts) ==
    LET r == get_class(CliW, cls, OptionFilter(opts))
    IN  [out |-> cli_outcome(r.out), trips |-> r.trips]

\* network: get_network_adapters(IPEnabled=True)
cli_network ==
    LET r == get_class(CliW, "Win32_NetworkAdapterConfiguration",
                       [IPEnabled |-> PyBool(TRUE)])
    IN  [out |-> cli_outcome(r.out), trips |-> r.trips]

\* The table of system-info reads attributes of cs_info and os_info, which
\* are None when the class has no instance, and takes
\* int(cs_info.TotalPhysicalMemory); bios_info is guarded.
system_info_table(os_info, cs_info) ==
    IF cs_info = PyNone \/ os_info = PyNone THEN Raise("AttributeError")
    ELSE IF cs_info.TotalPhysicalMemory = PyNone THEN Raise("TypeError")
    ELSE Return(<<cs_info.Name, PyInt(py_int(cs_info.TotalPhysicalMemory))>>)

\* system-info: three fetches, then JSON (wmi_object_to_dict, which takes
\* None as well) or the table.
cli_system_info(fmt) ==
    LET o == get_class(CliW, "Win32_OperatingSystem", NoFilter)
        c == get_class(CliW, "Win32_ComputerSystem", NoFilter)
        b == get_class(CliW, "Win32_BIOS", NoFilter)
        body == IF ~o.out.ok THEN o.out
                ELSE IF ~c.out.ok THEN c.out
                ELSE IF ~b.out.ok THEN b.out
                ELSE IF fmt = "json"
                     THEN Return(<<first_or_none(o.out.value),
                                   first_or_none(c.out.value),
                                   first_or_none(b.out.value)>>)
                     ELSE system_info_table(first_or_none(o.out.value),
                                            first_or_none(c.out.value))
    IN  [out |-> cli_outcome(body),
         trips |-> o.trips \o (IF o.out.ok THEN c.trips ELSE <<>>)
                   \o (IF o.out.ok /\ c.out.ok THEN b.trips ELSE <<>>)]

\* disks, as a step of the same shape.
cli_disks_step(flt, fmt) ==
    LET r == cli_disks(flt, fmt)
    IN  [out |-> [exit |-> r.exit, err |-> r.err, value |-> r.entries],
         trips |-> r.trips]

\* The commands with their arguments and options.
Formats == {"table", "json"}
CliCommands ==
    {[cmd |-> "query", wql |-> q, fmt |-> f] :
        q \in WqlInputs, f \in Formats \cup {"raw"}}
    \cup {[cmd |-> "list_classes"]}
    \cup {[cmd |-> "class_info", cls |-> c] : c \in ClassInputs}
    \cup {[cmd |-> "services", fmt |-> f,
           opts |-> [Name |-> PyNone, State |-> st]] :
             f \in Formats, st \in {PyNone, PyStr(<<"Running">>)}}
    \cup {[cmd |-> "processes", fmt |-> f,
           opts |-> [Name |-> n]] :
             f \in Formats, n \in {PyNone, PyStr(<<"explorer.exe">>)}}
    \cup {[cmd |-> "system_info", fmt |-> f] : f \in Formats}
    \cup {[cmd |-> "disks", fmt |-> f, flt |-> d] :
             f \in Formats, d \in {NoFilter, [DriveType |-> PyInt(3)]}}
    \cup {[cmd |-> "network", fmt |-> f] : f \in Formats}

\* What a command does once its wrapper holds a handle.
cli_run(c) ==
    CASE c.cmd = "query" -> cli_query(c.wql, c.fmt)
      [] c.cmd = "list_classes" -> cli_list_classes
      [] c.cmd = "class_info" -> cli_class_info(c.cls)
      [] c.cmd = "services" -> cli_listing("Win32_Service", c.opts)
      [] c.cmd = "processes" -> cli_listing("Win32_Process", c.opts)
      [] c.cmd = "system_info" -> cli_system_info(c.fmt)
      [] c.cmd = "disks" -> cli_disks_step(c.flt, c.fmt)
      [] c.cmd = "network" -> cli_network

\* What a CLI process leaves in `last` when it exits.
CliRecord(c, upAtConnect, out, trips) ==
    [op |-> "cli", cmd |-> c, upAtConnect |-> upAtConnect, up |-> hostUp,
     exit |-> out.exit, err |-> out.err, value |-> out.value, trips |-> trips]

\* A command starts: WMIWrapper(...) and the get_connection() of the first
\* wrapper call. When wmi.WMI raises, the handler ends the process.
CliStart ==
    /\ cli.pc = "idle"
    /\ \E c \in CliCommands :
          LET g == get_connection(CliW)
          IN  IF g.ok
              THEN /\ connection' = [connection EXCEPT ![CliW] = g.conn]
                   /\ ctorCalls' = [ctorCalls EXCEPT ![CliW] = @ + g.ctor]
                   /\ cli' = [pc |-> "connected", cmd |-> c]
                   /\ UNCHANGED last
              ELSE /\ last' = CliRecord(c, FALSE, cli_outcome(Raise(g.err)),
                                        <<>>)
                   /\ UNCHANGED <<connection, ctorCalls, cli>>
    /\ UNCHANGED <<com_initialized, coInitCalls, live, nextHandle,
                   tools_wrapper, hostUp, backend, arg, environ, agent, chat,
                   invoked, threads>>

\* The command goes on with the handle stored, renders, and the process
\* exits: nothing of it is left.
CliFinish ==
    /\ cli.pc = "connected"
    /\ LET r == cli_run(cli.cmd)
       IN  last' = CliRecord(cli.cmd, TRUE, r.out, r.trips)
    /\ cli' = CliIdle
    /\ connection' = [connection EXCEPT ![CliW] = None]
    /\ ctorCalls' = [ctorCalls EXCEPT ![CliW] = 0]
    /\ Invoke(surface_methods("cli", cli.cmd.cmd))
    /\ UNCHANGED <<com_initialized, coInitCalls, live, nextHandle,
                   tools_wrapper, hostUp, arg, environ, agent, chat,
                   threads>>

\* The backends of the CLI runs: the system classes with an instance or
\* without, the memory counter present or missing.
CliBackends ==
    {[DefaultBackend EXCEPT !.cs = c, !.os = o] :
        c \in {<<>>, <<ComputerSystem>>,
               <<[ComputerSystem EXCEPT !.TotalPhysicalMemory = PyNone]>>},
        o \in {<<>>, <<OperatingSystem>>}}

InitCli ==
    /\ ProcInit
    /\ UiInit
    /\ hostUp \in BOOLEAN
    /\ backend \in CliBackends
    /\ arg = Idle
    /\ last = Idle

NextCli ==
    \/ CliStart
    \/ CliFinish
    \/ HostChange

SpecCli == InitCli /\ [][NextCli]_vars

\* ------------------------------------------------------ the agent tools
TopLimit == 15    \* [:15]
ShowLimit == 5    \* results[:5]

\* sorted(..., key=..., reverse=True) on a list of [key, item] pairs: the
\* larger key first, equal keys in their original order.
RECURSIVE InsertDesc(_, _)
InsertDesc(l, x) ==
    IF l = <<>> THEN <<x>>
    ELSE IF Head(l).key >= x.key THEN <<Head(l)>> \o InsertDesc(Tail(l), x)
    ELSE <<x>> \o l

RECURSIVE SortedDesc(_)
SortedDesc(l) ==
    IF l = <<>> THEN <<>>
    ELSE InsertDesc(SortedDesc(SubSeq(l, 1, Len(l) - 1)), l[Len(l)])

\* A tool function whose except clause lets the exception go on.
caught_reraising(head, body, text) ==
    IF ~body.ok
    THEN [kind |-> "raised", head |-> head, entries |-> <<>>, err |-> body.err]
    ELSE text

\* try: ... return <text>  except Exception as e: return f"Error ...: {str(e)}"
caught(head, body, text) ==
    IF ~body.ok THEN ToolError(head, body.err) ELSE text

\* A tool that makes no wrapper call leaves the handle of w as it is.
NoConnect(w) == [ctor |-> 0, ok |-> TRUE, conn |-> connection[w], err |-> "none"]

\* get_system_info: three fetches on _wrapper, then the text, which reads
\* attributes of os_info and cs_info (None without an instance).
tool_get_system_info ==
    LET o == get_class(ToolW, "Win32_OperatingSystem", NoFilter)
        c == get_class(ToolW, "Win32_ComputerSystem", NoFilter)
        b == get_class(ToolW, "Win32_BIOS", NoFilter)
        body == IF ~o.out.ok THEN o.out
                ELSE IF ~c.out.ok THEN c.out
                ELSE IF ~b.out.ok THEN b.out
                ELSE system_info_table(first_or_none(o.out.value),
                                       first_or_none(c.out.value))
    IN  [w |-> ToolW, g |-> o.g, init |-> TRUE,
         out |-> caught("Error getting system info: ", body,
                        ToolText("System Information:", body.value)),
         trips |-> o.trips \o (IF o.out.ok THEN c.trips ELSE <<>>)
                   \o (IF o.out.ok /\ c.out.ok THEN b.trips ELSE <<>>)]

\* get_memory_info: _system_mon.get_memory_info()
tool_get_memory_info ==
    LET r == get_memory_info(SysMonW)
    IN  [w |-> SysMonW, g |-> r.g, init |-> TRUE,
         out |-> caught("Error getting memory info: ", r.out,
                        ToolText("Memory Information:", <<r.out.value>>)),
         trips |-> r.trips]

\* get_cpu_info: the first processor.
tool_get_cpu_info ==
    LET r == query(ToolW, <<"SELECT", "*", "FROM", "Win32_Processor">>)
    IN  [w |-> ToolW, g |-> r.g, init |-> TRUE,
         out |-> caught("Error getting CPU info: ", r.out,
                    IF r.out.value = <<>>
                    THEN ToolText("No CPU information available", <<>>)
                    ELSE ToolText("CPU Information:", <<r.out.value[1]>>)),
         trips |-> r.trips]

\* get_network_info: the adapters with IPEnabled=True.
tool_get_network_info ==
    LET r == query(ToolW, <<"SELECT", "*", "FROM",
                            "Win32_NetworkAdapterConfiguration", "WHERE",
                            "IPEnabled", "=", "True">>)
    IN  [w |-> ToolW, g |-> r.g, init |-> TRUE,
         out |-> caught("Error getting network info: ", r.out,
                    IF r.out.value = <<>>
                    THEN ToolText("No active network adapters found", <<>>)
                    ELSE ToolText("Network Adapters:", r.out.value)),
         trips |-> r.trips]

\* SystemMonitor.get_uptime: os_info.LastBootUpTime.split('.')[0], parsed as
\* %Y%m%d%H%M%S; None has no attribute to read, and no split.
get_uptime(w) ==
    LET o == get_class(w, "Win32_OperatingSystem", NoFilter)
        os_info == first_or_none(o.out.value)
    IN  [g |-> o.g,
         out |-> IF ~o.out.ok THEN o.out
                 ELSE IF os_info = PyNone THEN Raise("AttributeError")
                 ELSE IF os_info.LastBootUpTime = PyNone
                      THEN Raise("AttributeError")
                 ELSE IF Len(os_info.LastBootUpTime.s) = 0
                      THEN Raise("ValueError")
                 ELSE Return([boot_time |-> os_info.LastBootUpTime.s[1]]),
         trips |-> o.trips]

\* get_uptime: _system_mon.get_uptime()
tool_get_uptime ==
    LET r == get_uptime(SysMonW)
    IN  [w |-> SysMonW, g |-> r.g, init |-> TRUE,
         out |-> caught("Error getting uptime: ", r.out,
                        ToolText("System Uptime:", <<r.out.value>>)),
         trips |-> r.trips]

\* check_admin_privileges: is_admin() catches its own exceptions; no WMI.
tool_check_admin_privileges(admin) ==
    [w |-> ToolW, g |-> NoConnect(ToolW), init |-> FALSE,
     out |-> IF admin
             THEN ToolText("Running with Administrator privileges", <<>>)
             ELSE ToolText("NOT running with Administrator privileges", <<>>),
     trips |-> <<>>]

\* ------------------------------------------------ the hosts' process lists
MaxProcs == 2     \* processes a host of the process specification runs

\* Working-set sizes as the client library hands them over: absent, or the
\* decimal digits of 0, of one mebibyte, of one byte more.
OneMiB == <<"1", "0", "4", "8", "5", "7", "6">>
WsValues ==
    {PyNone, PyStr(<<"0">>), PyStr(OneMiB),
     PyStr(<<"1", "0", "4", "8", "5", "7", "7">>)}

\* Process records: ProcessId is the key of Win32_Process, so IDs differ.
ProcRecords ==
    {[Name |-> PyStr(<<"p.exe">>), ProcessId |-> PyInt(p),
      WorkingSetSize |-> ws] : p \in 1..MaxProcs, ws \in WsValues}
ProcLists ==
    {l \in SeqsUpTo(ProcRecords, MaxProcs) :
        \A i, j \in 1..Len(l) : i # j => l[i].ProcessId # l[j].ProcessId}

\* The condition of the filter with >= in place of >.
exceeds_or_equals(size, min_bytes) ==
    Truthy(size) /\ py_int(size) >= min_bytes

\* p.WorkingSetSize and int(p.WorkingSetSize) > min_bytes
exceeds(size, min_bytes) ==
    Truthy(size) /\ py_int(size) > min_bytes

\* [p for p in all_processes if p.WorkingSetSize and
\*                              int(p.WorkingSetSize) > min_bytes]
RECURSIVE high_memory(_, _)
high_memory(procs, min_bytes) ==
    IF procs = <<>> THEN <<>>
    ELSE (IF exceeds(Head(procs).WorkingSetSize, min_bytes)
          THEN <<Head(procs)>> ELSE <<>>)
         \o high_memory(Tail(procs), min_bytes)

\* ProcessManager.get_high_memory_processes
get_high_memory_processes(w, min_memory_mb) ==
    LET r == get_class(w, "Win32_Process", NoFilter)
    IN  [g |-> r.g,
         out |-> IF ~r.out.ok THEN r.out
                 ELSE Return(high_memory(r.out.value,
                                         min_memory_mb * 1024 * 1024)),
         trips |-> r.trips]

\* The [key, item] pairs of a list of records under a numeric property that
\* may be falsy (then 0).
RECURSIVE Keyed(_, _)
Keyed(rows, prop) ==
    IF rows = <<>> THEN <<>>
    ELSE <<[key |-> IF Truthy(Head(rows)[prop]) THEN py_int(Head(rows)[prop])
                    ELSE 0,
            item |-> Head(rows)]>> \o Keyed(Tail(rows), prop)

\* The first n (at most) of a list.
Top(l, n) == SubSeq(l, 1, Min(n, Len(l)))

\* list_processes: the processes with memory in use, the 15 largest first.
tool_list_processes ==
    LET r == get_high_memory_processes(ProcMgrW, 0)
    IN  [w |-> ProcMgrW, g |-> r.g, init |-> TRUE,
         out |-> caught("Error listing processes: ", r.out,
                    IF r.out.value = <<>>
                    THEN ToolText("No processes found", <<>>)
                    ELSE ToolText("Running Processes (Top 15 by Memory):",
                            Top(SortedDesc(Keyed(r.out.value, "WorkingSetSize")),
                                TopLimit))),
         trips |-> r.trips]

PerfQuery ==
    <<"SELECT", "Name, IDProcess, PercentProcessorTime, WorkingSet", "FROM",
      "Win32_PerfFormattedData_PerfProc_Process", "WHERE",
      "Name", "!=", "'", "_Total", "'", "AND", "Name", "!=", "'", "Idle", "'">>

\* [p for p in perf_processes if p.PercentProcessorTime is not None and
\*                               p.IDProcess != 0]
RECURSIVE valid_procs(_)
valid_procs(rows) ==
    IF rows = <<>> THEN <<>>
    ELSE (IF Head(rows).PercentProcessorTime # PyNone
             /\ Head(rows).IDProcess # PyInt(0)
          THEN <<Head(rows)>> ELSE <<>>) \o valid_procs(Tail(rows))

\* get_process_performance: the 15 processes with the most CPU time first.
tool_get_process_performance ==
    LET r == query(ToolW, PerfQuery)
    IN  [w |-> ToolW, g |-> r.g, init |-> TRUE,
         out |-> caught("Error getting process performance: ", r.out,
                    IF r.out.value = <<>>
                    THEN ToolText("No performance data available", <<>>)
                    ELSE ToolText("Process Performance (Top 15 by CPU Usage):",
                            Top(SortedDesc(Keyed(valid_procs(r.out.value),
                                                 "PercentProcessorTime")),
                                TopLimit))),
         trips |-> r.trips]

\* execute_wql_query: the first five results, each read property by
\* property inside a try block of its own.
tool_execute_wql_query(q) ==
    LET r == query(ToolW, q)
    IN  [w |-> ToolW, g |-> r.g, init |-> TRUE,
         out |-> caught("Error executing query: ", r.out,
                    IF r.out.value = <<>>
                    THEN ToolText("Query returned no results", <<>>)
                    ELSE ToolText("Query Results", Top(r.out.value, ShowLimit))),
         trips |-> r.trips]

\* The three tools modelled above, in the same shape.
tool_get_disk_info ==
    LET r == get_disk_info
    IN  [w |-> ToolW, g |-> r.g, init |-> TRUE, out |-> r.out,
         trips |-> r.trips]
tool_list_services(state) ==
    LET r == list_services(state)
    IN  [w |-> ToolW, g |-> r.g, init |-> TRUE, out |-> r.out,
         trips |-> r.trips]
tool_get_service_status(service_name) ==
    LET r == get_service_status(service_name)
    IN  [w |-> ToolW, g |-> r.g, init |-> TRUE, out |-> r.out,
         trips |-> r.trips]

\* The calls an agent makes: each tool, with arguments where it takes any.
NoArgTools ==
    {"get_system_info", "get_memory_info", "get_cpu_info", "get_disk_info",
     "get_network_info", "get_uptime", "check_admin_privileges",
     "list_processes", "get_process_performance"}
ToolCalls ==
    {[tool |-> t] : t \in NoArgTools}
    \cup {[tool |-> "list_services", state |-> st] :
            st \in {PyNone, PyStr(<<"Running">>)}}
    \cup {[tool |-> "get_service_status", service_name |-> n] :
            n \in {PyStr(<<"Spooler">>), PyStr(<<"Telnet">>)}}
    \cup {[tool |-> "execute_wql_query", query |-> q] :
            q \in {<<"SELECT", "*", "FROM", "Win32_Service">>,
                   <<"SELEC", "*", "FROM", "Win32_Service">>,
                   <<"SELECT", "*", "FROM", "Win32_Nothing">>}}

\* The tool function a call names, applied to the call's arguments.
tool_run(c, admin) ==
    CASE c.tool = "get_system_info" -> tool_get_system_info
      [] c.tool = "get_memory_info" -> tool_get_memory_info
      [] c.tool = "get_cpu_info" -> tool_get_cpu_info
      [] c.tool = "get_disk_info" -> tool_get_disk_info
      [] c.tool = "get_network_info" -> tool_get_network_info
      [] c.tool = "get_uptime" -> tool_get_uptime
      [] c.tool = "check_admin_privileges" -> tool_check_admin_privileges(admin)
      [] c.tool = "list_services" -> tool_list_services(c.state)
      [] c.tool = "get_service_status" -> tool_get_service_status(c.service_name)
      [] c.tool = "list_processes" -> tool_list_processes
      [] c.tool = "get_process_performance" -> tool_get_process_performance
      [] c.tool = "execute_wql_query" -> tool_execute_wql_query(c.query)

\* What one tool call leaves behind for the properties to read.
ToolCallRecord(c, r) ==
    [op |-> "tool", call |-> c, w |-> r.w, up |-> hostUp, ctor |-> r.g.ctor,
     conn |-> r.g.conn, kind |-> r.out.kind, head |-> r.out.head,
     entries |-> r.out.entries, err |-> r.out.err, trips |-> r.trips]

\* One call of a tool by the agent, out of the given calls: _init_wmi() when
\* the tool has it, the tool's calls on its wrapper, the text it returns.
ToolCallOf(calls) ==
    /\ \A w \in {ToolW, SysMonW, ProcMgrW} : ctorCalls[w] < MaxCtor
    /\ tools_wrapper # None \/ coInitCalls < MaxCoInit
    /\ \E c \in calls :
       \E cs \in (IF tools_wrapper = None /\ c.tool # "check_admin_privileges"
                  THEN CoInitOutcomes ELSE {[i \in 1..3 |-> TRUE]}),
          admin \in (IF c.tool = "check_admin_privileges"
                     THEN BOOLEAN ELSE {FALSE}) :
       \E r \in {tool_run(c, admin)} :
          /\ IF r.init THEN InitWmiEffects(init_wmi(cs))
             ELSE UNCHANGED <<live, tools_wrapper, coInitCalls, com_initialized>>
          /\ ConnEffects(r.w, r.g)
          /\ Invoke(surface_methods("tool", c.tool))
          /\ last' = ToolCallRecord(c, r)
    /\ UNCHANGED <<hostUp, arg, cli, environ, agent, chat, threads>>

\* One call of any tool.
ToolCall == ToolCallOf(ToolCalls)

\* Hosts whose instances are all there, or not, and whose operating system
\* and computer system records may lack a value.
ToolBackends ==
    {DefaultBackend,
     [DefaultBackend EXCEPT
        !.cs = <<[ComputerSystem EXCEPT !.TotalPhysicalMemory = PyNone]>>,
        !.os = <<[OperatingSystem EXCEPT !.LastBootUpTime = PyNone]>>]}
    \cup {[services |-> <<>>, disks |-> <<>>, cs |-> <<>>,
           os |-> <<OperatingSystem>>, bios |-> <<>>, procs |-> <<>>,
           cpus |-> <<>>, adapters |-> <<>>, perf |-> <<>>]}

InitTools ==
    /\ ProcInit
    /\ UiInit
    /\ hostUp \in BOOLEAN
    /\ backend \in ToolBackends
    /\ arg = Idle
    /\ last = Idle

NextTools ==
    \/ ToolCall
    \/ HostChange

SpecTools == InitTools /\ [][NextTools]_vars

\* C12: every tool call returns a text: the tool's report, or, when an
\* exception was raised below it (a host that does not answer, a query the
\* backend rejects, a missing instance), the text of its except clause;
\* nothing is raised to the agent.
C12_ToolsReturnText ==
    last.op = "tool" =>
        /\ last.kind \in {"text", "error"}
        /\ (\E i \in 1..Len(last.trips) : ~last.trips[i]) => last.kind = "error"
        /\ (last.call.tool # "check_admin_privileges" /\ last.conn = None)
               => last.kind = "error"

\* An exception raised by the backend was turned into the tool's text.
C12_Witness ==
    /\ last.op = "tool"
    /\ last.call.tool = "execute_wql_query"
    /\ last.up
    /\ last.trips = <<FALSE>>
    /\ last.kind = "error"
    /\ last.err = ClientError

\* The texts the except clauses of the tools put before the exception.
ErrorHeads ==
    {"Error getting system info: ", "Error getting memory info: ",
     "Error getting CPU info: ", "Error getting disk info: ",
     "Error getting network info: ", "Error getting uptime: ",
     "Error listing services: ", "Error getting service status: ",
     "Error listing processes: ", "Error getting process performance: ",
     "Error executing query: "}

\* The last tool call returned a message that begins with "Error".
ReportedAsError == last.kind = "error" /\ last.head \in ErrorHeads

\* The last tool call needed a host that did not answer, or handed the
\* backend a text it rejects (malformed WQL, a class that does not exist).
HostOrQueryFailure ==
    /\ last.op = "tool"
    /\ \/ ~last.up /\ last.call.tool # "check_admin_privileges"
       \/ /\ last.call.tool = "execute_wql_query"
          /\ ~WqlWellFormed(last.call.query)

\* The last tool call asked an answering host for a service it does not have.
MissingService ==
    /\ last.op = "tool"
    /\ last.call.tool = "get_service_status"
    /\ last.up
    /\ \A i \in 1..Len(backend.services) :
          backend.services[i].Name # last.call.service_name

\* C13 as claimed: an unreachable host, a missing class, malformed WQL and a
\* service that does not exist are all reported by the tools as a message
\* that begins with "Error".
C13_AllFailuresBeginWithError ==
    (HostOrQueryFailure \/ MissingService) => ReportedAsError

\* The last tool call asked an answering host without processes for them.
NoProcesses ==
    /\ last.op = "tool"
    /\ last.call.tool = "list_processes"
    /\ last.up
    /\ backend.procs = <<>>

\* C13 as amended: an unreachable host, a missing class and malformed WQL
\* are reported as a message that begins with "Error"; a service that does
\* not exist is reported by get_service_status as "Service ... not found",
\* and list_processes without processes reports "No processes found".
C13_FailuresBeginWithErrorExceptNotFound ==
    /\ HostOrQueryFailure => ReportedAsError
    /\ MissingService =>
          /\ last.kind = "text"
          /\ last.head = "Service not found"
          /\ last.entries = <<>>
    /\ NoProcesses =>
          /\ last.kind = "text"
          /\ last.head = "No processes found"

\* get_service_status was asked for a service the answering host lacks.
C13_Witness ==
    /\ MissingService
    /\ last.call.service_name = PyStr(<<"Telnet">>)
    /\ Len(backend.services) > 0
    /\ last.trips = <<TRUE>>

\* --------------------------------------------- the layers side by side
\* One process uses one layer: the wrapper directly, a module, a CLI command
\* or the agent tools. Which one is settled at the start.
Layers == {"wrapper", "module", "cli", "tool"}

InitLayers ==
    /\ ProcInit
    /\ UiInit
    /\ hostUp \in BOOLEAN
    /\ backend = DefaultBackend
    /\ arg \in {[layer |-> l] : l \in Layers}
    /\ last = Idle

NextLayers ==
    \/ arg.layer = "wrapper" /\ \E w \in Wrappers : Construct(w)
    \/ arg.layer = "wrapper" /\ \E w \in Wrappers : Query(w)
    \/ arg.layer = "wrapper" /\ \E w \in Wrappers : GetClass(w)
    \/ arg.layer = "module" /\ SystemMonitorInit(1)
    \/ arg.layer = "module" /\ GetDiskUsage(1)
    \/ arg.layer = "module" /\ GetMemoryInfo(1)
    \/ arg.layer = "cli" /\ CliStart
    \/ arg.layer = "cli" /\ CliFinish
    \/ arg.layer = "tool" /\ ToolCall
    \/ HostChange

SpecLayers == InitLayers /\ [][NextLayers]_vars

\* The operations that issue backend requests, by the name they leave.
RequestOps == {"query", "get_class", "get_disk_usage", "get_memory_info",
               "cli", "tool"}

\* The last call's final request went unanswered.
LastTripFailed == last.trips # <<>> /\ ~last.trips[Len(last.trips)]

\* The failure of the request came out of the last call: as the client's
\* exception from a wrapper or module method, as exit status 1 from a CLI
\* command, as the text of the except clause from a tool.
Surfaced ==
    CASE last.op = "cli" -> last.exit = 1 /\ last.err = ClientError
      [] last.op = "tool" -> last.kind = "error" /\ last.err = ClientError
      [] OTHER -> ~last.ok /\ last.err = ClientError

\* C14: a call of WMIWrapper.query or WMIWrapper.get_class invokes wmi.WMI
\* and issues its backend request at most once each; in every layer a call
\* issues no request after one that failed, and the failure of a request of
\* query or get_class comes out of the call.
C14_NoRetries ==
    last.op \in RequestOps =>
        /\ last.op \in {"query", "get_class"}
              => Len(last.trips) <= 1 /\ last.ctor <= 1
        /\ \A i \in 1..(Len(last.trips) - 1) : last.trips[i]
        /\ (LastTripFailed /\ ~(last.op = "cli" /\ last.cmd.cmd = "list_classes"))
              => Surfaced

\* A query on an open handle failed at the backend, once, and was raised.
C14_Witness ==
    /\ last.op = "query"
    /\ last.ctor = 0
    /\ last.trips = <<FALSE>>
    /\ ~last.ok
    /\ last.err = ClientError

\* ------------------------------------- the connections of the tool layer
\* The instances _init_wmi() keeps: _wrapper, and the wrappers inside
\* _system_mon and _process_mgr.
ToolLayerWrappers == {ToolW, SysMonW, ProcMgrW}

\* The handles wmi.WMI has handed out in this process so far.
HandlesCreated == nextHandle - 1

\* C16 as claimed: over any sequence of tool calls at most one connection
\* is created, and every tool works on that one.
C16_SingleToolConnection ==
    /\ HandlesCreated <= 1
    /\ (last.op = "tool" /\ last.conn # None) => last.conn = connection[ToolW]

\* C16 as amended: over any sequence of tool calls at most three connections
\* are created, one for each instance _init_wmi() keeps; a handle an
\* instance has stored is never replaced, wmi.WMI is not invoked for that
\* instance again, and a tool that calls the instance works on that handle.
C16_OneConnectionPerToolInstance ==
    [][/\ HandlesCreated' <= Cardinality(ToolLayerWrappers)
       /\ \A w \in ToolLayerWrappers :
             connection[w] # None =>
                /\ connection'[w] = connection[w]
                /\ ctorCalls'[w] = ctorCalls[w]
                /\ (last'.op = "tool" /\ last'.w = w)
                      => last'.conn = connection[w]]_vars

\* All three instances hold a handle of their own, and the last tool call
\* reused the one of its instance.
C16_Witness ==
    /\ \A w \in ToolLayerWrappers : connection[w] # None
    /\ HandlesCreated = 3
    /\ connection[ToolW] # connection[SysMonW]
    /\ connection[SysMonW] # connection[ProcMgrW]
    /\ last.op = "tool"
    /\ last.call.tool = "get_memory_info"
    /\ last.ctor = 0
    /\ last.conn = connection[SysMonW]

\* ------------------------------------------------------ the COM set-up
\* C15 as claimed: over any sequence of constructions CoInitialize is
\* invoked at most once in total, and once the class flag is set no
\* construction invokes it.
C15_CoInitializeAtMostOnce ==
    [][/\ coInitCalls' <= 1
       /\ com_initialized => coInitCalls' = coInitCalls]_vars

\* ------------------------------------------------------------ WMIAgent
MaxAgents == 2    \* ChatAgent objects one WMIAgent may create

\* os.getenv(key, default): None is the default of the default.
getenv(key, default) ==
    IF key \in DOMAIN environ THEN environ[key] ELSE default

\* a or b
py_or(a, b) == IF Truthy(a) THEN a ELSE b

\* s.endswith('/') for a str of lexemes
EndsWithSlash(v) == v.s # <<>> /\ v.s[Len(v.s)] = "/"

SupportedProviders == {PyStr(<<"ollama">>), PyStr(<<"azure">>)}

\* WMIAgent.__init__ without the check of the provider.
agent_init_unchecked(provider, model_id, endpoint) ==
    LET p == py_or(provider, getenv("AGENT_PROVIDER", PyStr(<<"ollama">>)))
    IN  [out |-> Return([made |-> TRUE, provider |-> p,
                         model_id |-> py_or(model_id, getenv("OLLAMA_MODEL",
                                                     PyStr(<<"gpt-oss:120b">>))),
                         endpoint |-> py_or(endpoint, getenv("OLLAMA_ENDPOINT",
                                         PyStr(<<"http://localhost:11434/v1">>))),
                         deployment_name |-> PyNone, agent_ |-> PyNone,
                         created |-> 0, clients |-> 0]),
         clients |-> 0]

\* WMIAgent.__init__: the provider from the argument or the environment, the
\* settings of that provider; no client and no agent yet.
agent_init(provider, model_id, endpoint) ==
    LET p == py_or(provider, getenv("AGENT_PROVIDER", PyStr(<<"ollama">>)))
        obj == [made |-> TRUE, provider |-> p, model_id |-> PyNone,
                endpoint |-> PyNone, deployment_name |-> PyNone,
                agent_ |-> PyNone, created |-> 0, clients |-> 0]
    IN  [out |->
           IF p \notin SupportedProviders THEN Raise("ValueError")
           ELSE IF p = PyStr(<<"ollama">>)
           THEN Return([obj EXCEPT
                  !.model_id = py_or(model_id, getenv("OLLAMA_MODEL",
                                               PyStr(<<"gpt-oss:120b">>))),
                  !.endpoint = py_or(endpoint, getenv("OLLAMA_ENDPOINT",
                                     PyStr(<<"http://localhost:11434/v1">>)))])
           ELSE LET deployment_name ==
                        py_or(model_id, getenv("AZURE_OPENAI_DEPLOYMENT", PyNone))
                    ep == py_or(endpoint, getenv("AZURE_OPENAI_ENDPOINT", PyNone))
                IN  IF ~Truthy(ep) THEN Raise("ValueError")
                    ELSE IF ~Truthy(deployment_name) THEN Raise("ValueError")
                    ELSE Return([obj EXCEPT
                           !.deployment_name = deployment_name,
                           !.endpoint = IF EndsWithSlash(ep) THEN ep
                                        ELSE PyStr(ep.s \o <<"/">>),
                           !.model_id = deployment_name]),
         clients |-> 0]

\* The ChatAgent the n-th create_agent of an object makes around a client.
ChatAgent(n, client) == [t |-> "ChatAgent", n |-> n, client |-> client]

\* WMIAgent.create_agent that asks for no API key.
create_agent_keyless(a) ==
    LET client == IF a.provider = PyStr(<<"ollama">>) THEN "OpenAIChatClient"
                  ELSE "AzureOpenAIChatClient"
        chat_agent == ChatAgent(a.created + 1, client)
    IN  [out |-> Return(chat_agent),
         agent |-> [a EXCEPT !.agent_ = chat_agent, !.created = @ + 1,
                             !.clients = @ + 1]]

\* WMIAgent.create_agent: the client of the provider (for azure the API key
\* is read from the environment, and required), then the ChatAgent.
create_agent(a) ==
    LET api_key == getenv("AZURE_OPENAI_API_KEY", PyNone)
        client == IF a.provider = PyStr(<<"ollama">>) THEN "OpenAIChatClient"
                  ELSE "AzureOpenAIChatClient"
        chat_agent == ChatAgent(a.created + 1, client)
    IN  IF a.provider = PyStr(<<"azure">>) /\ ~Truthy(api_key)
        THEN [out |-> Raise("ValueError"), agent |-> a]
        ELSE [out |-> Return(chat_agent),
              agent |-> [a EXCEPT !.agent_ = chat_agent, !.created = @ + 1,
                                  !.clients = @ + 1]]

\* WMIAgent.get_new_thread that creates the agent when there is none.
get_new_thread_creating(a) ==
    LET c == IF a.agent_ # PyNone THEN [out |-> Return(a.agent_), agent |-> a]
             ELSE create_agent(a)
    IN  [out |-> IF c.out.ok THEN Return([t |-> "AgentThread", of |-> c.out.value])
                 ELSE c.out,
         agent |-> c.agent]

\* WMIAgent.get_new_thread
get_new_thread(a) ==
    [out |-> IF a.agent_ = PyNone THEN Raise("RuntimeError")
             ELSE Return([t |-> "AgentThread", of |-> a.agent_]),
     agent |-> a]

\* WMIAgent.run that creates an agent for every query.
agent_run_recreating(a, message, answers) ==
    LET c == create_agent(a)
    IN  [out |-> IF ~c.out.ok THEN c.out
                 ELSE IF answers THEN Return([by |-> c.out.value, to |-> message])
                 ELSE Raise("ClientError"),
         agent |-> c.agent]

\* WMIAgent.run (and run_streaming): the agent is created when there is
\* none; the model behind it answers, or the client raises.
agent_run(a, message, answers) ==
    LET c == IF a.agent_ # PyNone THEN [out |-> Return(a.agent_), agent |-> a]
             ELSE create_agent(a)
    IN  [out |-> IF ~c.out.ok THEN c.out
                 ELSE IF answers THEN Return([by |-> c.out.value, to |-> message])
                 ELSE Raise("ClientError"),
         agent |-> c.agent]

\* WMIAgent.close
agent_close(a) == [out |-> Return(PyNone), agent |-> [a EXCEPT !.agent_ = PyNone]]

\* The environments a process starts in: each variable unset, empty or set.
EnvChoices ==
    [AGENT_PROVIDER : {PyNone, PyStr(<<>>), PyStr(<<"ollama">>),
                       PyStr(<<"azure">>), PyStr(<<"openai">>)},
     AZURE_OPENAI_ENDPOINT : {PyNone, PyStr(<<>>), PyStr(<<"https://e">>)},
     AZURE_OPENAI_API_KEY : {PyNone, PyStr(<<>>), PyStr(<<"key">>)},
     AZURE_OPENAI_DEPLOYMENT : {PyNone, PyStr(<<>>), PyStr(<<"gpt-4.1">>)},
     OLLAMA_MODEL : {PyNone, PyStr(<<"llama3">>)}]

\* os.environ for a choice: the variables that are not unset.
EnvOf(f) == [k \in {x \in DOMAIN f : f[x] # PyNone} |-> f[k]]

\* The arguments a caller passes to WMIAgent(...).
ProviderArgs == {PyNone, PyStr(<<>>), PyStr(<<"ollama">>), PyStr(<<"azure">>),
                 PyStr(<<"openai">>)}
ModelArgs == {PyNone, PyStr(<<"gpt-4o">>)}
EndpointArgs == {PyNone, PyStr(<<"https://a">>), PyStr(<<"https://a", "/">>)}
Messages == {"what is my uptime"}

\* What a call on the agent leaves for the properties to read.
AgentRecord(op, input, r, before) ==
    [op |-> op, input |-> input, ok |-> r.out.ok, err |-> r.out.err,
     value |-> r.out.value, before |-> before]

\* agent = WMIAgent(provider, model_id, endpoint); the record's value is the
\* number of clients the call created.
WMIAgentInit ==
    /\ ~agent.made
    /\ \E provider \in ProviderArgs, model_id \in ModelArgs,
          endpoint \in EndpointArgs :
          LET r == agent_init(provider, model_id, endpoint)
          IN  /\ agent' = IF r.out.ok THEN r.out.value ELSE agent
              /\ last' = [AgentRecord("WMIAgent.__init__",
                                      [provider |-> provider,
                                       model_id |-> model_id,
                                       endpoint |-> endpoint], r, agent)
                            EXCEPT !.value = r.clients]
    /\ UNCHANGED <<procVars, hostUp, backend, arg, cli, environ, chat,
                   invoked, threads>>

\* await agent.create_agent()
CreateAgent ==
    /\ agent.made
    /\ agent.created < MaxAgents
    /\ LET r == create_agent(agent)
       IN  /\ agent' = r.agent
           /\ last' = AgentRecord("create_agent", <<>>, r, agent)
    /\ UNCHANGED <<procVars, hostUp, backend, arg, cli, environ, chat,
                   invoked, threads>>

\* agent.get_new_thread()
GetNewThread ==
    /\ agent.made
    /\ LET r == get_new_thread(agent)
       IN  /\ agent' = r.agent
           /\ last' = AgentRecord("get_new_thread", <<>>, r, agent)
    /\ UNCHANGED <<procVars, hostUp, backend, arg, cli, environ, chat,
                   invoked, threads>>

\* await agent.run(message)
AgentRun ==
    /\ agent.made
    /\ agent.created < MaxAgents
    /\ \E message \in Messages, answers \in BOOLEAN :
          LET r == agent_run(agent, message, answers)
          IN  /\ agent' = r.agent
              /\ last' = AgentRecord("run", message, r, agent)
    /\ UNCHANGED <<procVars, hostUp, backend, arg, cli, environ, chat,
                   invoked, threads>>

\* async for chunk in agent.run_streaming(message): the same test and the
\* same creation as run, then the chunks of the answer.
AgentRunStreaming ==
    /\ agent.made
    /\ agent.created < MaxAgents
    /\ \E message \in Messages, answers \in BOOLEAN :
          LET r == agent_run(agent, message, answers)
          IN  /\ agent' = r.agent
              /\ last' = AgentRecord("run_streaming", message, r, agent)
    /\ UNCHANGED <<procVars, hostUp, backend, arg, cli, environ, chat,
                   invoked, threads>>

\* await agent.close()
AgentClose ==
    /\ agent.made
    /\ LET r == agent_close(agent)
       IN  /\ agent' = r.agent
           /\ last' = AgentRecord("close", <<>>, r, agent)
    /\ UNCHANGED <<procVars, hostUp, backend, arg, cli, environ, chat,
                   invoked, threads>>

InitAgent ==
    /\ ProcInit
    /\ cli = CliIdle
    /\ chat = NoChat
    /\ invoked = <<>>
    /\ threads = NoThreads
    /\ agent = NoAgent
    /\ environ \in {EnvOf(f) : f \in EnvChoices}
    /\ hostUp = TRUE
    /\ backend = DefaultBackend
    /\ arg = Idle
    /\ last = Idle

NextAgent ==
    \/ WMIAgentInit
    \/ CreateAgent
    \/ GetNewThread
    \/ AgentRun
    \/ AgentRunStreaming
    \/ AgentClose

SpecAgent == InitAgent /\ [][NextAgent]_vars

\* The variable is not in the environment, or is there as the empty string.
EnvUnset(key) == ~Truthy(getenv(key, PyNone))

\* C17 as claimed: constructing a WMIAgent for the azure provider raises
\* ValueError whenever the endpoint, the API key or the deployment name is
\* unset (not passed as an argument, where there is one, and not in the
\* environment).
C17_AzureNeedsAllThreeAtConstruction ==
    (/\ last.op = "WMIAgent.__init__"
     /\ py_or(last.input.provider,
              getenv("AGENT_PROVIDER", PyStr(<<"ollama">>))) = PyStr(<<"azure">>)
     /\ \/ ~Truthy(last.input.endpoint) /\ EnvUnset("AZURE_OPENAI_ENDPOINT")
        \/ ~Truthy(last.input.model_id) /\ EnvUnset("AZURE_OPENAI_DEPLOYMENT")
        \/ EnvUnset("AZURE_OPENAI_API_KEY"))
        => ~last.ok /\ last.err = "ValueError"

\* C17 as amended: constructing a WMIAgent for the azure provider raises
\* ValueError whenever the endpoint or the deployment name is unset, and
\* succeeds otherwise, API key or not; with the API key unset it is
\* create_agent (and run, which calls it) that raises ValueError, leaving
\* the object without a client and without an agent.
C17_AzureKeyNeededAtCreateAgent ==
    /\ (/\ last.op = "WMIAgent.__init__"
        /\ py_or(last.input.provider,
                 getenv("AGENT_PROVIDER", PyStr(<<"ollama">>))) = PyStr(<<"azure">>))
          => IF \/ ~Truthy(last.input.endpoint) /\ EnvUnset("AZURE_OPENAI_ENDPOINT")
                \/ ~Truthy(last.input.model_id) /\ EnvUnset("AZURE_OPENAI_DEPLOYMENT")
             THEN ~last.ok /\ last.err = "ValueError" /\ ~agent.made
             ELSE last.ok /\ agent.made /\ agent.provider = PyStr(<<"azure">>)
    /\ (/\ last.op \in {"create_agent", "run"}
        /\ last.before.agent_ = PyNone
        /\ agent.provider = PyStr(<<"azure">>)
        /\ EnvUnset("AZURE_OPENAI_API_KEY"))
          => /\ ~last.ok
             /\ last.err = "ValueError"
             /\ agent = last.before
             /\ agent.clients = 0

\* An azure agent was constructed without an API key in the environment,
\* and its create_agent raised.
C17_Witness ==
    /\ last.op = "create_agent"
    /\ agent.made
    /\ agent.provider = PyStr(<<"azure">>)
    /\ "AZURE_OPENAI_API_KEY" \notin DOMAIN environ
    /\ ~last.ok
    /\ last.err = "ValueError"
    /\ agent.clients = 0

\* The provider a construction settles on: the argument when given (not
\* None, not empty), otherwise AGENT_PROVIDER, otherwise "ollama".
ResolvedProvider(given) ==
    IF Truthy(given) THEN given
    ELSE IF "AGENT_PROVIDER" \in DOMAIN environ THEN environ["AGENT_PROVIDER"]
    ELSE PyStr(<<"ollama">>)

\* C18: a constructed WMIAgent has a provider in {ollama, azure}, which is
\* the argument when given, otherwise the AGENT_PROVIDER value, otherwise
\* "ollama"; a construction that settles on any other value raises
\* ValueError, having created no client and no agent.
C18_ProviderResolved ==
    /\ agent.made => agent.provider \in SupportedProviders
    /\ last.op = "WMIAgent.__init__" =>
          LET p == ResolvedProvider(last.input.provider)
          IN  /\ last.ok => /\ agent.made
                            /\ agent.provider = p
                            /\ agent.agent_ = PyNone
                            /\ agent.clients = 0
              /\ p \notin SupportedProviders =>
                    /\ ~last.ok
                    /\ last.err = "ValueError"
                    /\ last.value = 0
                    /\ agent = NoAgent
              /\ p = PyStr(<<"ollama">>) => last.ok

\* No provider was passed, and the construction took azure from the
\* environment.
C18_Witness ==
    /\ last.op = "WMIAgent.__init__"
    /\ last.input.provider = PyNone
    /\ "AGENT_PROVIDER" \in DOMAIN environ
    /\ environ["AGENT_PROVIDER"] = PyStr(<<"azure">>)
    /\ last.ok
    /\ agent.made
    /\ agent.provider = PyStr(<<"azure">>)

\* C19: get_new_thread raises RuntimeError when the object holds no agent,
\* before the first create_agent and after close alike, and otherwise
\* returns a thread of the agent it holds; the object is left as it was, no
\* agent created.
C19_GetNewThreadNeedsAgent ==
    last.op = "get_new_thread" =>
        /\ agent = last.before
        /\ IF last.before.agent_ = PyNone
           THEN ~last.ok /\ last.err = "RuntimeError"
           ELSE /\ last.ok
                /\ last.value = [t |-> "AgentThread", of |-> last.before.agent_]

\* An agent was created and closed, and get_new_thread raised after that.
C19_Witness ==
    /\ last.op = "get_new_thread"
    /\ agent.created = 1
    /\ agent.agent_ = PyNone
    /\ ~last.ok
    /\ last.err = "RuntimeError"

\* -------------------------------------------- the interactive agent CLI
MaxLines == 3     \* lines waiting on standard input

\* A line is a sequence of pieces: a blank, a slash, a word.
Blank == " "
Slash == "/"

\* str.strip(): the blanks at both ends go.
RECURSIVE lstrip(_)
lstrip(l) == IF l # <<>> /\ Head(l) = Blank THEN lstrip(Tail(l)) ELSE l
RECURSIVE rstrip(_)
rstrip(l) ==
    IF l # <<>> /\ l[Len(l)] = Blank THEN rstrip(SubSeq(l, 1, Len(l) - 1)) ELSE l
strip(l) == rstrip(lstrip(l))

\* str.lower(), piece by piece.
lower_piece(x) ==
    CASE x = "EXIT" -> "exit"
      [] x = "Quit" -> "quit"
      [] OTHER -> x
lower(l) == [i \in 1..Len(l) |-> lower_piece(l[i])]

\* One pass of the loop body over a stripped line in which only the known
\* commands are commands: any other line goes to the agent.
handle_input_known_only(user_input) ==
    IF user_input = <<>> THEN "continue"
    ELSE IF lower(user_input) \in {<<Slash, "exit">>, <<Slash, "quit">>}
         THEN "break"
    ELSE IF lower(user_input) \in {<<Slash, "help">>, <<Slash, "clear">>}
         THEN "continue"
    ELSE "run"

\* One pass of the loop body over a stripped line: skip it, leave the loop,
\* or hand it to the agent.
handle_input(user_input) ==
    IF user_input = <<>> THEN "continue"
    ELSE IF Head(user_input) = Slash
         THEN IF lower(user_input) \in {<<Slash, "exit">>, <<Slash, "quit">>}
              THEN "break"
              ELSE "continue"
    ELSE "run"

\* The lines a user types.
Lines ==
    {<<>>, <<Blank>>, <<"hi">>, <<Blank, "hi", Blank>>, <<"hi", Slash, "foo">>,
     <<Slash, "help">>, <<Slash, "clear">>, <<Blank, Slash, "foo">>,
     <<Slash, "EXIT">>, <<Slash, "Quit", Blank>>,
     <<Slash, "exit", Blank, "hi">>}

\* WMIAgentCLI(provider).initialize(): create_wmi_agent, which constructs
\* the WMIAgent and creates its agent; any exception makes it return False.
initialize(provider) ==
    LET self_provider == py_or(provider, getenv("AGENT_PROVIDER",
                                                PyStr(<<"ollama">>)))
        a == agent_init(self_provider, PyNone, PyNone)
        c == IF a.out.ok THEN create_agent(a.out.value)
             ELSE [out |-> a.out, agent |-> agent]
    IN  [ok |-> c.out.ok, agent |-> IF c.out.ok THEN c.agent ELSE agent]

\* run_interactive up to the loop: without an agent it returns at once.
ChatInitialize ==
    /\ chat.pc = "start"
    /\ \E provider \in {PyNone, PyStr(<<"openai">>)} :
          LET r == initialize(provider)
          IN  /\ agent' = r.agent
              /\ chat' = [chat EXCEPT !.pc = IF r.ok THEN "loop" ELSE "done"]
              /\ last' = [op |-> "initialize", ok |-> r.ok]
    /\ UNCHANGED <<procVars, hostUp, backend, arg, cli, environ, invoked,
                   threads>>

\* Leaving run_interactive with nothing done on the way out.
finally_skipped(a) == a

\* finally: if self.agent: await self.agent.close()
finally_close(a) == agent_close(a).agent

\* The query step of the loop in which an exception of agent.run ends the
\* loop.
run_query_ending(a, user_input, answers) ==
    LET r == agent_run(a, user_input, answers)
    IN  [agent |-> r.agent, next |-> IF r.out.ok THEN "loop" ELSE "done",
         outcome |-> IF r.out.ok THEN "response" ELSE "error"]

\* try: response = await self.agent.run(user_input); print(response)
\* except Exception as e: print(error); then the loop goes on.
run_query(a, user_input, answers) ==
    LET r == agent_run(a, user_input, answers)
    IN  [agent |-> r.agent, next |-> "loop",
         outcome |-> IF r.out.ok THEN "response" ELSE "error"]

\* What one pass of the loop leaves for the properties to read: what was
\* done with the line, why the loop was left (if it was), how the query
\* went (if there was one).
PassRecord(todo, line, why, outcome) ==
    [op |-> "input", todo |-> todo, line |-> line, why |-> why,
     outcome |-> outcome]

\* One pass of the while loop: input() (which raises EOFError at the end of
\* the input, KeyboardInterrupt when the user interrupts), the line's
\* handling, the query (which an interrupt may cut short: KeyboardInterrupt
\* is no Exception), and on leaving the loop the finally clause that closes
\* the agent.
ChatRead ==
    /\ chat.pc = "loop"
    /\ \E interrupted \in BOOLEAN, answers \in BOOLEAN, cut \in BOOLEAN :
          IF interrupted \/ chat.stdin = <<>>
          THEN /\ chat' = [chat EXCEPT !.pc = "done"]
               /\ agent' = finally_close(agent)
               /\ last' = PassRecord("break", <<>>,
                                     IF interrupted THEN "interrupt" ELSE "eof",
                                     "none")
          ELSE LET line == Head(chat.stdin)
                   user_input == strip(line)
                   todo == handle_input(user_input)
               IN  \E q \in {run_query(agent, user_input, answers)} :
                   LET leaves == \/ todo = "break"
                                 \/ todo = "run" /\ (cut \/ q.next = "done")
                       after == IF todo = "run" /\ ~cut THEN q.agent ELSE agent
                   IN  /\ chat' = [pc |-> IF leaves THEN "done" ELSE "loop",
                                   stdin |-> Tail(chat.stdin),
                                   read |-> Append(chat.read, line),
                                   forwarded |->
                                       IF todo = "run"
                                       THEN Append(chat.forwarded, user_input)
                                       ELSE chat.forwarded]
                       /\ agent' = IF leaves THEN finally_close(after) ELSE after
                       /\ last' = PassRecord(todo, line,
                                     IF todo = "break" THEN "command"
                                     ELSE IF todo = "run" /\ cut THEN "interrupt"
                                     ELSE IF leaves THEN "error" ELSE "none",
                                     IF todo # "run" THEN "none"
                                     ELSE IF cut THEN "interrupted"
                                     ELSE q.outcome)
    /\ UNCHANGED <<procVars, hostUp, backend, arg, cli, environ, invoked,
                   threads>>

InitChat ==
    /\ ProcInit
    /\ cli = CliIdle
    /\ environ = NoEnv
    /\ agent = NoAgent
    /\ invoked = <<>>
    /\ threads = NoThreads
    /\ chat \in {[pc |-> "start", stdin |-> l, read |-> <<>>,
                  forwarded |-> <<>>] : l \in SeqsUpTo(Lines, MaxLines)}
    /\ hostUp = TRUE
    /\ backend = DefaultBackend
    /\ arg = Idle
    /\ last = Idle

NextChat ==
    \/ ChatInitialize
    \/ ChatRead

SpecChat == InitChat /\ [][NextChat]_vars

\* A line that is not empty after trimming and, trimmed, does not start
\* with a slash.
IsQuery(line) == strip(line) # <<>> /\ Head(strip(line)) # Slash

\* The lines among l that are queries, trimmed, in order.
RECURSIVE QueriesOf(_)
QueriesOf(l) ==
    IF l = <<>> THEN <<>>
    ELSE (IF IsQuery(Head(l)) THEN <<strip(Head(l))>> ELSE <<>>)
         \o QueriesOf(Tail(l))

\* C20: of the lines the interactive CLI has read, those that are empty
\* after trimming or start with a slash were not handed to the agent, and
\* every other one was handed to it, trimmed, exactly once and in the order
\* of the input.
C20_ForwardsExactlyTheQueries ==
    chat.pc \in {"loop", "done"} => chat.forwarded = QueriesOf(chat.read)

\* Three lines were read: a query, an unknown command, a query with blanks
\* around it; the two queries went to the agent in that order.
C20_Witness ==
    /\ chat.pc = "loop"
    /\ chat.read = <<<<"hi", Slash, "foo">>, <<Blank, Slash, "foo">>,
                     <<Blank, "hi", Blank>>>>
    /\ chat.forwarded = <<<<"hi", Slash, "foo">>, <<"hi">>>>

\* C21: after a successful initialization, whichever way the interactive
\* CLI ends (/exit or /quit in any letter case, end of input, an interrupt
\* at the prompt or during a query), the agent is closed when run_interactive
\* is over; a query is sent only while the agent is open, so none after the
\* close.
C21_ClosesAgentOnEveryExit ==
    [][/\ (chat'.pc = "done" /\ agent'.made) => agent'.agent_ = PyNone
       /\ chat'.forwarded # chat.forwarded =>
             /\ chat.pc = "loop"
             /\ agent.agent_ # PyNone]_vars

\* The session ended on /EXIT after a query, with the agent closed.
C21_Witness ==
    /\ chat.pc = "done"
    /\ last.op = "input"
    /\ last.why = "command"
    /\ last.line = <<Slash, "EXIT">>
    /\ chat.forwarded # <<>>
    /\ agent.made
    /\ agent.agent_ = PyNone

\* C22: when agent.run raises for an input, the loop goes on with the next
\* input and the agent stays open; the loop is left only on /exit, /quit,
\* end of input or an interrupt.
C22_FailedQueryKeepsSession ==
    /\ (last.op = "input" /\ last.outcome = "error") =>
          /\ chat.pc = "loop"
          /\ agent.agent_ # PyNone
    /\ (last.op = "input" /\ chat.pc = "done") =>
          last.why \in {"command", "eof", "interrupt"}

\* The second query of a session failed; the loop is still on, with input
\* left to read.
C22_Witness ==
    /\ chat.pc = "loop"
    /\ Len(chat.forwarded) = 2
    /\ last.op = "input"
    /\ last.outcome = "error"
    /\ chat.stdin # <<>>

\* ------------------------------ ServiceManager and ProcessManager methods
\* The record a module acts on, as the object wmi_object_to_dict reads: its
\* properties are values, the methods of its class are bound methods.
AsObject(row, cls) ==
    [n \in {<<k>> : k \in DOMAIN row \cup ClassMethods(cls)} |->
        IF n[1] \in DOMAIN row THEN [k |-> "value", v |-> row[n[1]]]
        ELSE [k |-> "method", v |-> PyCallable]]

\* The first lines of a module method without the emptiness test: indexing
\* the empty list raises IndexError.
matching_unchecked(w, cls, flt) ==
    LET r == get_class(w, cls, flt)
    IN  [g |-> r.g,
         out |-> IF ~r.out.ok THEN r.out
                 ELSE IF r.out.value = <<>> THEN Raise("IndexError")
                 ELSE Return(r.out.value[1]),
         trips |-> r.trips]

\* The first lines of start_service, stop_service, get_service_status,
\* terminate_process and get_process_info: fetch the records the filter
\* selects, raise ValueError when there is none, go on with the first.
matching(w, cls, flt) ==
    LET r == get_class(w, cls, flt)
    IN  [g |-> r.g,
         out |-> IF ~r.out.ok THEN r.out
                 ELSE IF r.out.value = <<>> THEN Raise("ValueError")
                 ELSE Return(r.out.value[1]),
         trips |-> r.trips]

\* What a method of the client library hands back: a return code, or an
\* exception.
method_result(res) ==
    CASE res = "done" -> Return(PyInt(0))
      [] res = "refused" -> Return(PyInt(2))
      [] OTHER -> Raise(ClientError)

\* A module method that looks a record up and invokes one of its methods;
\* calls lists the invocations it made.
invoke_on(w, cls, flt, method, key, res) ==
    LET m == matching(w, cls, flt)
    IN  [g |-> m.g,
         out |-> IF ~m.out.ok THEN m.out ELSE method_result(res),
         trips |-> m.trips,
         calls |-> IF m.out.ok
                   THEN <<Invocation(method, m.out.value[key], res)>>
                   ELSE <<>>]

\* ServiceManager.start_service
start_service(w, service_name, res) ==
    invoke_on(w, "Win32_Service", [Name |-> service_name], "StartService",
              "Name", res)

\* ServiceManager.stop_service
stop_service(w, service_name, res) ==
    invoke_on(w, "Win32_Service", [Name |-> service_name], "StopService",
              "Name", res)

\* restart_service that goes on to start_service whatever stop_service did.
restart_service_regardless(w, service_name, res1, res2) ==
    LET s == stop_service(w, service_name, res1)
        t == start_service(w, service_name, res2)
    IN  [g |-> s.g, out |-> IF s.g.ok THEN t.out ELSE s.out,
         trips |-> s.trips \o (IF s.g.ok THEN t.trips ELSE <<>>),
         calls |-> s.calls \o (IF s.g.ok THEN t.calls ELSE <<>>)]

\* ServiceManager.restart_service: stop_service, then start_service; an
\* exception of stop_service ends the call. The second look-up is by Name
\* alone, so the State the stop has changed does not alter what it finds.
restart_service(w, service_name, res1, res2) ==
    LET s == stop_service(w, service_name, res1)
        t == start_service(w, service_name, res2)
    IN  [g |-> s.g, out |-> IF s.out.ok THEN t.out ELSE s.out,
         trips |-> s.trips \o (IF s.out.ok THEN t.trips ELSE <<>>),
         calls |-> s.calls \o (IF s.out.ok THEN t.calls ELSE <<>>)]

\* A look-up followed by wmi_object_to_dict on the first record.
describe(w, cls, flt) ==
    LET m == matching(w, cls, flt)
    IN  [g |-> m.g,
         out |-> IF ~m.out.ok THEN m.out
                 ELSE wmi_object_to_dict(AsObject(m.out.value, cls), NoProps),
         trips |-> m.trips, calls |-> <<>>]

\* ServiceManager.get_service_status
sm_get_service_status(w, service_name) ==
    describe(w, "Win32_Service", [Name |-> service_name])

\* ProcessManager.terminate_process
terminate_process(w, process_id, res) ==
    invoke_on(w, "Win32_Process", [ProcessId |-> process_id], "Terminate",
              "ProcessId", res)

\* ProcessManager.get_process_info
get_process_info(w, process_id) ==
    describe(w, "Win32_Process", [ProcessId |-> process_id])

\* The names and process IDs a caller gives: of records the host has, and of
\* none.
ServiceNameInputs == {PyStr(<<"Spooler">>), PyStr(<<"Fax">>), PyStr(<<"Telnet">>)}
ProcessIdInputs == {PyInt(4), PyInt(5)}

\* The module methods that take a name or an ID and may invoke a method.
ManagementOps ==
    {"start_service", "stop_service", "restart_service",
     "get_service_status", "terminate_process", "get_process_info"}

\* What a call of a module method of ManagementOps leaves in `last`; found
\* is the number of records the host held under the given name or ID.
MgmtRecord(op, w, input, found, r) ==
    [op |-> op, w |-> w, input |-> input, found |-> found, up |-> hostUp,
     ctor |-> r.g.ctor, conn |-> r.g.conn, ok |-> r.out.ok, err |-> r.out.err,
     value |-> r.out.value, trips |-> r.trips, calls |-> r.calls]

\* One call of a module method on the wrapper of its manager.
MgmtCall(op, w, input, found, r) ==
    /\ w \in live \cap Wrappers
    /\ ctorCalls[w] < MaxCtor
    /\ Len(invoked) + Len(r.calls) <= MaxInvoked
    /\ ConnEffects(w, r.g)
    /\ Invoke(r.calls)
    /\ last' = MgmtRecord(op, w, input, found, r)
    /\ UNCHANGED <<com_initialized, coInitCalls, live, tools_wrapper, hostUp,
                   arg, cli, environ, agent, chat, threads>>

Found(cls, flt) == Len(FilterRows(ClassRows(cls), flt))

StartService(w) ==
    \E n \in ServiceNameInputs, res \in MethodResults :
       MgmtCall("start_service", w, n, Found("Win32_Service", [Name |-> n]),
                start_service(w, n, res))

StopService(w) ==
    \E n \in ServiceNameInputs, res \in MethodResults :
       MgmtCall("stop_service", w, n, Found("Win32_Service", [Name |-> n]),
                stop_service(w, n, res))

RestartService(w) ==
    \E n \in ServiceNameInputs, res1, res2 \in MethodResults :
       MgmtCall("restart_service", w, n, Found("Win32_Service", [Name |-> n]),
                restart_service(w, n, res1, res2))

SmGetServiceStatus(w) ==
    \E n \in ServiceNameInputs :
       MgmtCall("get_service_status", w, n,
                Found("Win32_Service", [Name |-> n]),
                sm_get_service_status(w, n))

\* ProcessManager(computer): self.wrapper = WMIWrapper(computer=computer)
ProcessManagerInit(w) ==
    /\ w = Cardinality(live \cap Wrappers) + 1
    /\ coInitCalls < MaxCoInit
    /\ \E coOk \in BOOLEAN :
          /\ Constructed(w, WMIWrapperInit(w, coOk))
          /\ last' = [op |-> "ProcessManager.__init__", w |-> w]
    /\ UNCHANGED <<tools_wrapper, hostUp, backend, arg, uiVars>>

TerminateProcess(w) ==
    \E p \in ProcessIdInputs, res \in MethodResults :
       MgmtCall("terminate_process", w, p,
                Found("Win32_Process", [ProcessId |-> p]),
                terminate_process(w, p, res))

GetProcessInfo(w) ==
    \E p \in ProcessIdInputs :
       MgmtCall("get_process_info", w, p,
                Found("Win32_Process", [ProcessId |-> p]),
                get_process_info(w, p))

\* The management methods next to the two read-only surfaces, each driven on
\* its own: a service manager, a process manager, the CLI, the agent tools.
MgmtLayers == {"services", "processes", "cli", "tool"}

InitMgmt ==
    /\ ProcInit
    /\ UiInit
    /\ hostUp \in BOOLEAN
    /\ backend = DefaultBackend
    /\ arg \in {[layer |-> l] : l \in MgmtLayers}
    /\ last = Idle

NextMgmt ==
    \/ arg.layer = "services" /\ ServiceManagerInit(1)
    \/ arg.layer = "services" /\ StartService(1)
    \/ arg.layer = "services" /\ StopService(1)
    \/ arg.layer = "services" /\ RestartService(1)
    \/ arg.layer = "services" /\ SmGetServiceStatus(1)
    \/ arg.layer = "processes" /\ ProcessManagerInit(1)
    \/ arg.layer = "processes" /\ TerminateProcess(1)
    \/ arg.layer = "processes" /\ GetProcessInfo(1)
    \/ arg.layer = "cli" /\ CliStart
    \/ arg.layer = "cli" /\ CliFinish
    \/ arg.layer = "tool" /\ ToolCall
    \/ HostChange

SpecMgmt == InitMgmt /\ [][NextMgmt]_vars

\* C25: restart_service invokes StopService on the named service before
\* StartService: whenever it invokes StartService, that is its second
\* invocation, on the named service, and the first was a StopService on
\* the same service that returned. When the stop step raises (no such
\* service, an unreachable host, an exception of StopService itself)
\* StartService is not invoked.
C25_StopBeforeStart ==
    last.op = "restart_service" =>
       /\ \A i \in 1..Len(last.calls) :
             last.calls[i].method = "StartService" =>
                /\ i = 2
                /\ last.calls[i].target = last.input
                /\ last.calls[1].method = "StopService"
                /\ last.calls[1].target = last.input
                /\ last.calls[1].res # "raised"
       /\ Len(last.calls) >= 1 => last.calls[1].method = "StopService"
       /\ (last.found = 0 \/ ~last.up) => last.calls = <<>>

\* A restart that stopped the service and then started it.
C25_Witness ==
    /\ last.op = "restart_service"
    /\ Len(last.calls) = 2
    /\ last.calls[1] = Invocation("StopService", last.input, "done")
    /\ last.calls[2].method = "StartService"
    /\ last.ok

\* The module methods that raise ValueError for a name or an ID without a
\* record.
LookupOps == ManagementOps \ {"restart_service"}

\* The last call was one of LookupOps, the host answered its look-up, and no
\* record had the given name or ID.
NothingMatched ==
    /\ last.op \in LookupOps
    /\ last.trips = <<TRUE>>
    /\ last.found = 0

\* C26: start_service, stop_service, get_service_status, terminate_process
\* and get_process_info raise ValueError when no record matches the given
\* service name or process ID, and invoke no method then.
C26_NoMatchRaisesValueError ==
    NothingMatched =>
       /\ ~last.ok
       /\ last.err = "ValueError"
       /\ last.calls = <<>>

\* terminate_process was given the ID of no process.
C26_Witness ==
    /\ NothingMatched
    /\ last.op = "terminate_process"
    /\ last.err = "ValueError"

MinMemoryInputs == {0, 1}

\* ProcessManager.get_high_memory_processes on the wrapper of its manager.
GetHighMemoryProcesses(w) ==
    /\ w \in live \cap Wrappers
    /\ ctorCalls[w] < MaxCtor
    /\ \E min_memory_mb \in MinMemoryInputs :
       \E r \in {get_high_memory_processes(w, min_memory_mb)} :
          /\ ConnEffects(w, r.g)
          /\ last' = [op |-> "get_high_memory_processes", w |-> w,
                      input |-> min_memory_mb, up |-> hostUp,
                      ok |-> r.out.ok, err |-> r.out.err,
                      value |-> r.out.value, trips |-> r.trips]
    /\ UNCHANGED <<com_initialized, coInitCalls, live, tools_wrapper, hostUp,
                   backend, arg, uiVars>>

InitProc ==
    /\ ProcInit
    /\ UiInit
    /\ hostUp \in BOOLEAN
    /\ backend \in {[DefaultBackend EXCEPT !.procs = l] : l \in ProcLists}
    /\ arg \in {[layer |-> l] : l \in {"module", "tool"}}
    /\ last = Idle

\* A process manager of a caller, and the list_processes tool, each driven
\* on its own.
NextProc ==
    \/ arg.layer = "module" /\ ProcessManagerInit(1)
    \/ arg.layer = "module" /\ GetHighMemoryProcesses(1)
    \/ arg.layer = "tool" /\ ToolCallOf({[tool |-> "list_processes"]})
    \/ HostChange

SpecProc == InitProc /\ [][NextProc]_vars

\* C23: list_processes considers all running processes and reports the 15
\* with the largest working-set size (all of them when fewer than 15 are
\* running), in non-increasing order of working-set size.
C23_ReportsLargestOfAll ==
    (/\ last.op = "tool"
     /\ last.call.tool = "list_processes"
     /\ last.kind = "text") =>
       /\ Len(last.entries) = Min(TopLimit, Len(backend.procs))
       /\ \A i \in 1..Len(last.entries) :
             \E j \in 1..Len(backend.procs) :
                last.entries[i].item = backend.procs[j]
       /\ \A i \in 1..(Len(last.entries) - 1) :
             last.entries[i].key >= last.entries[i + 1].key

\* The working-set size of a process is above the threshold of the last
\* call.
AboveThreshold(p) ==
    /\ p.WorkingSetSize # PyNone
    /\ py_int(p.WorkingSetSize) > last.input * 1024 * 1024

RunOps == {"run", "run_streaming"}

\* The last call put its query to the model: an answer came back, or the
\* client raised.
QueryExecuted ==
    /\ last.op \in RunOps
    /\ last.ok \/ last.err = "ClientError"

\* The last call found no agent, or found one.
NoneBefore == last.before.agent_ = PyNone
CreatedByLast == agent.created - last.before.created

\* What the claim says of a query and of close: a query executes against an
\* agent that exists, which is the one that was there when there was one;
\* close leaves no agent, never fails, and changes nothing when repeated.
QueriesAndClose ==
    /\ QueryExecuted =>
          /\ agent.agent_ # PyNone
          /\ last.ok => last.value.by = agent.agent_
          /\ ~NoneBefore => agent.agent_ = last.before.agent_
    /\ last.op \in RunOps /\ ~NoneBefore => CreatedByLast = 0
    /\ last.op = "close" =>
          /\ last.ok
          /\ agent.agent_ = PyNone
          /\ CreatedByLast = 0
          /\ agent_close(agent).agent = agent
          /\ NoneBefore => agent = last.before

\* C28 as claimed: for any sequence of run, run_streaming and close calls a
\* query always executes against an existing agent; run creates the
\* underlying agent exactly when none exists and never a second one while
\* one exists; close leaves no agent and is idempotent.
C28_RunCreatesExactlyWhenNone ==
    /\ QueriesAndClose
    /\ last.op \in RunOps => (CreatedByLast = 1 <=> NoneBefore)

\* The provider is azure and the API key is not in the environment.
AzureKeyMissing ==
    /\ agent.provider = PyStr(<<"azure">>)
    /\ EnvUnset("AZURE_OPENAI_API_KEY")

\* C28 as amended: as claimed, except that with the azure provider and
\* without AZURE_OPENAI_API_KEY a run that finds no agent creates none: it
\* raises the ValueError of create_agent, executes no query and leaves the
\* object as it was.
C28_RunCreatesWhenNoneUnlessKeyMissing ==
    /\ QueriesAndClose
    /\ last.op \in RunOps =>
          /\ CreatedByLast = 1 <=> (NoneBefore /\ ~AzureKeyMissing)
          /\ CreatedByLast \in {0, 1}
          /\ NoneBefore /\ AzureKeyMissing =>
                /\ ~last.ok
                /\ last.err = "ValueError"
                /\ agent = last.before

\* A run after a close: the object had made one agent before, there was none
\* left, and the run made the second and put the query to it.
C28_Witness ==
    /\ last.op = "run"
    /\ NoneBefore
    /\ last.before.created = 1
    /\ agent.created = 2
    /\ last.ok
    /\ last.value.by = agent.agent_

\* --------------------------------- WMIWrapper() on two threads at a time
\* Each thread constructs the instance of its own number. The interpreter
\* may switch threads between the test of the class flag, the call of
\* CoInitialize and the assignment to the flag; nothing in __init__ holds a
\* lock.
Threads == Wrappers

\* A set-up that tests the flag a second time right before the call.
call_needed_rechecking(seen) == ~com_initialized

\* Whether a thread that has passed `if not WMIWrapper._com_initialized:`
\* goes on to pythoncom.CoInitialize(): it does, on what it saw.
call_needed(seen) == seen = "unset"

\* The thread's __init__ has finished: the instance exists, without a
\* connection.
ThreadDone(t) ==
    /\ live' = live \cup {t}
    /\ connection' = [connection EXCEPT ![t] = None]

\* self._connection = None; if not WMIWrapper._com_initialized:
ThreadTest(t) ==
    /\ threads[t].pc = "idle"
    /\ LET seen == IF com_initialized THEN "set" ELSE "unset"
       IN  /\ threads' = [threads EXCEPT ![t].seen = seen,
                             ![t].pc = IF seen = "unset" THEN "call" ELSE "done"]
           /\ IF seen = "unset" THEN UNCHANGED <<live, connection>>
              ELSE ThreadDone(t)
    /\ last' = [op |-> "WMIWrapper.__init__", w |-> t]
    /\ UNCHANGED <<com_initialized, coInitCalls, ctorCalls, nextHandle,
                   tools_wrapper, hostUp, backend, arg, cli, environ, agent,
                   chat, invoked>>

\* try: pythoncom.CoInitialize() ... except: pass
ThreadCoInitialize(t) ==
    /\ threads[t].pc = "call"
    /\ \E coOk \in BOOLEAN :
          IF call_needed(threads[t].seen)
          THEN /\ coInitCalls' = coInitCalls + 1
               /\ threads' = [threads EXCEPT
                                ![t].co = IF coOk THEN "ok" ELSE "raised",
                                ![t].pc = IF coOk THEN "assign" ELSE "done"]
               /\ IF coOk THEN UNCHANGED <<live, connection>>
                  ELSE ThreadDone(t)
          ELSE /\ coInitCalls' = coInitCalls
               /\ threads' = [threads EXCEPT ![t].pc = "done"]
               /\ ThreadDone(t)
    /\ last' = [op |-> "WMIWrapper.__init__", w |-> t]
    /\ UNCHANGED <<com_initialized, ctorCalls, nextHandle, tools_wrapper,
                   hostUp, backend, arg, cli, environ, agent, chat, invoked>>

\* WMIWrapper._com_initialized = True
ThreadAssign(t) ==
    /\ threads[t].pc = "assign"
    /\ com_initialized' = TRUE
    /\ threads' = [threads EXCEPT ![t].pc = "done"]
    /\ ThreadDone(t)
    /\ last' = [op |-> "WMIWrapper.__init__", w |-> t]
    /\ UNCHANGED <<coInitCalls, ctorCalls, nextHandle, tools_wrapper, hostUp,
                   backend, arg, cli, environ, agent, chat, invoked>>

InitThreads ==
    /\ ProcInit
    /\ UiInit
    /\ hostUp \in BOOLEAN
    /\ backend = DefaultBackend
    /\ arg = Idle
    /\ last = Idle

\* The threads construct their instances, then use them.
NextThreads ==
    \/ \E t \in Threads : ThreadTest(t)
    \/ \E t \in Threads : ThreadCoInitialize(t)
    \/ \E t \in Threads : ThreadAssign(t)
    \/ \E t \in Threads : Query(t)
    \/ HostChange

SpecThreads == InitThreads /\ [][NextThreads]_vars

\* The threads that found the flag unset and are past the call.
UnsetObservers ==
    {t \in Threads : threads[t].seen = "unset"
                     /\ threads[t].pc \in {"assign", "done"}}

\* C29: the one-time COM set-up guard is not thread-safe: every thread that
\* observes the flag unset invokes CoInitialize, whatever another thread
\* has done since the observation, so the invocations are as many as those
\* threads; with two threads constructing concurrently both can be among
\* them (the witness).
C29_EveryUnsetObserverInvokes ==
    /\ coInitCalls = Cardinality(UnsetObservers)
    /\ \A t \in UnsetObservers : threads[t].co # "none"

\* Two threads both found the flag unset and both invoked CoInitialize,
\* each call returning: the set-up ran twice although neither call failed.
C29_Witness ==
    /\ \A t \in 1..2 : /\ threads[t].seen = "unset"
                       /\ threads[t].co = "ok"
                       /\ threads[t].pc = "done"
    /\ coInitCalls >= 2
    /\ com_initialized

\* Whether some backend request of the last call went unanswered.
SomeTripFailed == \E i \in 1..Len(last.trips) : ~last.trips[i]

\* C11 as claimed: whenever an exception is raised while a CLI command runs -
\* by the connection, by a backend request or by the rendering - the command
\* exits with a status other than 0.
C11_ExitsNonZeroOnAnyException ==
    (last.op = "cli"
        /\ (~last.upAtConnect \/ SomeTripFailed \/ last.err # "none"))
    => last.exit # 0

\* C11 as amended: an exception that reaches the handler of the command ends
\* it with status 1 - a failed connection, a failed request of any command
\* but list-classes, malformed WQL, a class the namespace does not hold, a
\* system-info table without a computer-system or operating-system record.
\* list-classes absorbs the failure of its meta_class request: it prints the
\* fallback list and exits with 0.
C11_ExitsNonZeroUnlessAbsorbed ==
    last.op = "cli" =>
        /\ (\/ ~last.upAtConnect
            \/ last.err # "none"
            \/ (last.cmd.cmd # "list_classes" /\ SomeTripFailed)
            \/ (last.cmd.cmd = "query" /\ ~WqlWellFormed(last.cmd.wql))
            \/ (last.cmd.cmd = "class_info" /\ last.cmd.cls \notin KnownClasses)
            \/ (last.cmd.cmd = "system_info" /\ last.cmd.fmt = "table"
                   /\ (backend.cs = <<>> \/ backend.os = <<>>)))
           => last.exit = 1
        /\ (last.cmd.cmd = "list_classes" /\ last.upAtConnect /\ SomeTripFailed)
           => (last.exit = 0 /\ last.value = FallbackClasses)

\* A query command connected, the host stopped answering, and the command
\* ended with status 1 and the client's error.
C11_Witness ==
    /\ last.op = "cli"
    /\ last.cmd.cmd = "query"
    /\ last.upAtConnect
    /\ last.trips = <<FALSE>>
    /\ last.err = ClientError
    /\ last.exit = 1

=============================================================================
